---- MODULE Spec2Model ----
(***************************************************************************)
(* Model of the WhatsApp connection-session lifecycle manager              *)
(* (backend/src/whatsapp/whatsapp.service.ts, WhatsappService) and of the  *)
(* database-backed auth state it loads (db-auth-state.ts), with the        *)
(* callers of its send path: the session controller, the public API and    *)
(* CampaignsService (campaigns/campaigns.service.ts).                      *)
(*                                                                         *)
(* JavaScript runs one callback at a time, so actions never overlap.       *)
(* initializeClient is split at its awaits (loading the auth state,        *)
(* fetching the protocol version); an event handler, a timer callback and  *)
(* deleteSession are one action each, their repository calls included.    *)
(***************************************************************************)
EXTENDS Bags, FiniteSets, Integers, Sequences, TLC

\* ------------------------------------------------------------------ bounds
NumSessions == 1
MaxSockets == 2
MaxInits == 1
MaxRaceSockets == 2
MaxRaceInits == 2
MaxRetrySockets == 6
MaxSends == 2
MaxSendSockets == 1
MaxClock == 180000
MaxPairSockets == 2
MaxCredsUpdates == 2
MaxArtifacts == 2
MaxRetryCount == 10
MaxRecipientLen == 10
NumPeers == 2
MaxPeerSockets == 2
MaxPeerEvents == 1
MaxRecipients == 2
MaxLateSockets == 2
MaxLateUpdates == 1
MaxRuns == 2

\* ------------------------------------------------- program constants
RATE_LIMIT_MAX == 30
RATE_LIMIT_WINDOW == 60000
MAX_RETRIES == 5
BASE_RETRY_DELAY == 2000
MAX_RETRY_DELAY == 300000
LoggedOutCode == 401

Sessions == 1..NumSessions

\* the session ids of a table that holds more than one session
Peers == 1..NumPeers
Owners == {1}
Users == {1, 2}
InitSlots == 1..(IF MaxInits > MaxRaceInits THEN MaxInits ELSE MaxRaceInits)

\* Math.random() samples, in thousandths (0 <= r < 1000).
RandomSamples == {0, 999}

\* Math.random() samples for a call of getRetryDelay on its own
JitterSamples == {0, 250, 500, 750, 999}

\* Status codes a transport reports on close; 0 stands for "no code"
\* (lastDisconnect.error undefined).
StatusCodes == {0, 401, 403, 429}
RetryableCodes == {0, 429, 503}

\* the closes of sessions side by side: one that is retried and a logout
PeerCodes == {0, 401}

\* how far the clock moves between two calls, in ms
ClockSteps == {29500, 60000, 60001}

\* Phone numbers a caller asks pairing for: none, too short, ten digits
Phones == { << >>, <<"+", "9", "1", "-", "7">>,
            <<"9", "8", "7", "6", "5", "-", "4", "3", "2", "1", "0">> }

Digits == {"0", "1", "2", "3", "4", "5", "6", "7", "8", "9"}

\* '@s.whatsapp.net'
AddressSuffix == <<"@", "s", ".", "w", "h", "a", "t", "s", "a", "p", "p", ".", "n", "e", "t">>

\* Recipients handed to sendMessage: the numbers the spec names, one with
\* separators, and every string of up to MaxRecipientLen sevens and dashes
NamedRecipients ==
    { <<"9", "8", "7", "6", "5", "4", "3", "2", "1", "0">>,
      <<"+", "9", "1", "9", "8", "7", "6", "5", "4", "3", "2", "1", "0">>,
      <<"9", "1", "9", "8", "7", "6", "5", "4", "3", "2", "1", "0">>,
      <<"(", "9", "8", "7", ")", " ", "6", "5", "4", "-", "3", "2", "1", "0">> }
Recipients == NamedRecipients \cup UNION { [1..k -> {"7", "-"}] : k \in 0..MaxRecipientLen }

\* File extensions of media paths and URL paths, as path.extname returns them
Extensions == {".jpg", ".JPG", ".jpeg", ".png", ".gif", ".webp", ".mp4", ".avi", ".mov",
               ".pdf", ".PDF", ".doc", ".docx", ".txt", ""}

\* A media path: its directory, and the name and extension of its last
\* segment; NoMedia is an absent mediaPath. The path of a URL may also end in '/'
MediaPaths == [dir : {"/uploads/", ""}, name : {"a", "b"}, ext : Extensions]
NoMedia == [dir |-> "", name |-> "", ext |-> "none"]
UrlPaths == MediaPaths \cup { [dir |-> "/", name |-> "", ext |-> ""] }

\* Content-Type headers of a response, as <<type, subtype>>; << >> is no header
ContentTypes == { <<"image", "png">>, <<"video", "mp4">>, <<"application", "pdf">>,
                  <<"text", "plain">>, <<"application", "octet-stream">>, << >> }

Messages == {"hello", ""}

\* Identities a transport reports on open; <<>> stands for "no user".
Identities == { <<"9", "1", ":", "7", "@">>, <<>> }

\* ------------------------------------------------------------ sentinels
NoPhone == <<>>

\* a sessionData column that holds NULL
NullData == << >>

\* initAuthCreds(): fresh credentials; rev counts the updates applied to the
\* credentials and the key store since
initAuthCreds == [registered |-> FALSE, rev |-> 0]

\* JSON.stringify({ creds, keys }, BufferJSON.replacer), db-auth-state.ts line 50
Stringify(creds) ==
    << "creds", IF creds.registered THEN "registered" ELSE "unregistered", creds.rev >>

\* JSON.parse(session.sessionData, BufferJSON.reviver), db-auth-state.ts line 36
Parse(data) == [registered |-> data[2] = "registered", rev |-> data[3]]

NewCreds == Stringify(initAuthCreds)
RegisteredCreds == Stringify([registered |-> TRUE, rev |-> 0])

NoRow == [userId |-> 0, status |-> "none", sessionData |-> NullData, phoneNumber |-> NoPhone]
NoClient == [socket |-> 0, userId |-> 0, retryCount |-> 0, lastActivity |-> 0]
IdleInit == [pc |-> "idle", sessionId |-> 0, userId |-> 0, retryCount |-> 0,
             phoneNumber |-> NoPhone, creds |-> initAuthCreds]
NoEntry == [count |-> 0, resetTime |-> 0]
NoCheck == [sessionId |-> 0, allowed |-> TRUE, waitTime |-> 0]
NoOutcome == [op |-> "none", sessionId |-> 0, userId |-> 0, value |-> "none"]
NoCall == [fn |-> "none", args |-> << >>, result |-> << >>]
NoCampaign == [userId |-> 0, sessionId |-> 0, status |-> "none", totalRecipients |-> 0,
               sentCount |-> 0, failedCount |-> 0, recipients |-> << >>]

VARIABLES
    rows,            \* sessionRepository: session id -> row
    nextId,          \* next generated primary key
    clients,         \* this.clients: session id -> ActiveClient
    sockets,         \* every transport made by makeWASocket, in creation order
    healthTimers,    \* sockets whose client object holds a live setInterval handle
    timers,          \* pending reconnect setTimeout closures (a bag)
    statusCallbacks, \* this.statusCallbacks: sessions with a status listener
    qrCallbacks,     \* this.qrCallbacks: sessions with a QR listener
    pairingCodeCallbacks, \* this.pairingCodeCallbacks: sessions with a pairing-code listener
    pairTimers,      \* sockets whose setTimeout(requestCode, 3000) is pending
    inits,           \* initializeClient calls suspended at an await
    restoreQueue,    \* onModuleInit: sessions it has still to restore
    now,             \* Date.now()
    emitted,         \* notifications handed to listeners by the last step
    rateLimits,      \* this.rateLimits: session id -> RateLimitEntry (count 0: no entry)
    rateCheck,       \* what the last checkRateLimit call returned
    logs,            \* messageLogRepository: the rows, in insertion order
    sends,           \* every sendMessage call made so far, with its position
    outcome,         \* what the call or handler that ended in the last step returned or threw
    passedAt,        \* per session, when checkRateLimit let a call pass in the last window
    applied,         \* the last call of a helper made on its own: arguments and result
    campaign,        \* the campaigns row (one campaign) with its campaign_recipients rows
    runs             \* the sendCampaignMessages invocations, each with what it holds

vars == <<rows, nextId, clients, sockets, healthTimers, timers, statusCallbacks,
          qrCallbacks, pairingCodeCallbacks, pairTimers,
          inits, restoreQueue, now, emitted, rateLimits, rateCheck, logs, sends, outcome,
          passedAt, applied, campaign, runs>>

dispatcher == <<rateLimits, rateCheck, logs, sends, passedAt>>
callbacks == <<statusCallbacks, qrCallbacks, pairingCodeCallbacks>>
campaigning == <<campaign, runs>>

\* ------------------------------------------------------- pure functions

\* categorizeError without its FATAL arm: every unlisted code is retried
categorizeErrorNoFatal(statusCode) ==
    IF statusCode = LoggedOutCode THEN "logged_out"
    ELSE IF statusCode = 429 THEN "rate_limited"
    ELSE "temporary"

categorizeError(statusCode) ==
    IF statusCode = LoggedOutCode THEN "logged_out"
    ELSE IF statusCode \in {408, 500, 502, 503, 515} THEN "temporary"
    ELSE IF statusCode = 429 THEN "rate_limited"
    ELSE IF statusCode >= 400 /\ statusCode < 500 THEN "fatal"
    ELSE "temporary"

Min(a, b) == IF a < b THEN a ELSE b

\* lines 126-129: Math.min(BASE_RETRY_DELAY * Math.pow(2, retryCount), MAX_RETRY_DELAY)
CappedDelay(retryCount) == Min(BASE_RETRY_DELAY * (2 ^ retryCount), MAX_RETRY_DELAY)

\* getRetryDelay with the jitter taken as delay * 2 * (random - 0.5)
getRetryDelayWideJitter(retryCount, r) ==
    LET delay == IF BASE_RETRY_DELAY * (2 ^ retryCount) < MAX_RETRY_DELAY
                 THEN BASE_RETRY_DELAY * (2 ^ retryCount) ELSE MAX_RETRY_DELAY
    IN  (delay * r) \div 500

\* getRetryDelay with Math.random() = r / 1000:
\*   floor(delay + delay * 0.2 * (r/1000 - 0.5)) = floor(delay * (4500 + r) / 5000)
getRetryDelay(retryCount, r) ==
    LET delay == CappedDelay(retryCount)
    IN  (delay * (4500 + r)) \div 5000

\* lastDisconnect?.error?.output?.statusCode || 500
StatusCodeOf(code) == IF code = 0 THEN 500 ELSE code

\* id.split(':')[0]
RECURSIVE BeforeColon(_)
BeforeColon(id) ==
    IF id = <<>> THEN <<>>
    ELSE IF Head(id) = ":" THEN <<>>
    ELSE <<Head(id)>> \o BeforeColon(Tail(id))

\* socket.user?.id?.split(':')[0] || socket.user?.id
PhoneOf(id) == IF BeforeColon(id) # <<>> THEN BeforeColon(id) ELSE id

\* str.replace(/[^0-9]/g, '')
RECURSIVE StripNonDigits(_)
StripNonDigits(str) ==
    IF str = << >> THEN << >>
    ELSE (IF Head(str) \in Digits THEN << Head(str) >> ELSE << >>) \o StripNonDigits(Tail(str))

\* lines 391-397: the digits of the phone number, with 91 put before ten digits
FormatPhone(phoneNumber) ==
    IF Len(StripNonDigits(phoneNumber)) = 10
    THEN <<"9", "1">> \o StripNonDigits(phoneNumber)
    ELSE StripNonDigits(phoneNumber)

\* the recipient formatting with the country code put before every number
FormatRecipientPrefixAlways(recipient) ==
    <<"9", "1">> \o StripNonDigits(recipient) \o AddressSuffix

\* lines 496-505: strip the non-digits, put 91 before ten digits, append the
\* suffix unless the number includes an '@'
FormatRecipient(recipient) ==
    LET digits == StripNonDigits(recipient)
        formattedNumber == IF Len(digits) = 10 THEN <<"9", "1">> \o digits ELSE digits
    IN  IF \E i \in 1..Len(formattedNumber) : formattedNumber[i] = "@"
        THEN formattedNumber
        ELSE formattedNumber \o AddressSuffix

\* String.prototype.toLowerCase on an extension
LowerCase(ext) ==
    CASE ext = ".JPG" -> ".jpg"
      [] ext = ".PDF" -> ".pdf"
      [] OTHER -> ext

\* path.extname(p).toLowerCase(), lines 565 and 636
ExtOf(p) == LowerCase(p.ext)

\* path.basename(p): the last segment, empty for a path that ends in '/'
Basename(p) == IF p.name = "" /\ p.ext = "" THEN << >> ELSE << p.name, p.ext >>

\* getMimeType, lines 564-580, as <<type, subtype>>
getMimeType(filePath) ==
    CASE ExtOf(filePath) \in {".jpg", ".jpeg"} -> <<"image", "jpeg">>
      [] ExtOf(filePath) = ".png" -> <<"image", "png">>
      [] ExtOf(filePath) = ".gif" -> <<"image", "gif">>
      [] ExtOf(filePath) = ".webp" -> <<"image", "webp">>
      [] ExtOf(filePath) = ".mp4" -> <<"video", "mp4">>
      [] ExtOf(filePath) = ".avi" -> <<"video", "avi">>
      [] ExtOf(filePath) = ".mov" -> <<"video", "quicktime">>
      [] ExtOf(filePath) = ".pdf" -> <<"application", "pdf">>
      [] ExtOf(filePath) = ".doc" -> <<"application", "msword">>
      [] ExtOf(filePath) = ".docx" ->
            <<"application", "vnd.openxmlformats-officedocument.wordprocessingml.document">>
      [] OTHER -> <<"application", "octet-stream">>

\* the content handed to socket.sendMessage; an absent key is << >>
Payload(kind, mimetype, fileName, caption, text) ==
    [kind |-> kind, mimetype |-> mimetype, fileName |-> fileName, caption |-> caption,
     text |-> text]

\* the payload selection with a caption on every document
MediaPayloadCaptionAlways(mediaPath, exists, message) ==
    IF mediaPath # NoMedia /\ exists
    THEN IF getMimeType(mediaPath)[1] = "image"
         THEN Payload("image", << >>, << >>, << message >>, << >>)
         ELSE IF getMimeType(mediaPath)[1] = "video"
         THEN Payload("video", << >>, << >>, << message >>, << >>)
         ELSE Payload("document", getMimeType(mediaPath), Basename(mediaPath),
                      << message >>, << >>)
    ELSE Payload("text", << >>, << >>, << >>, << message >>)

\* sendMessage, lines 518-550: the payload for a media path (exists tells what
\* fs.existsSync returns) and a body
MediaPayload(mediaPath, exists, message) ==
    IF mediaPath # NoMedia /\ exists
    THEN IF getMimeType(mediaPath)[1] = "image"
         THEN Payload("image", << >>, << >>, << message >>, << >>)
         ELSE IF getMimeType(mediaPath)[1] = "video"
         THEN Payload("video", << >>, << >>, << message >>, << >>)
         ELSE IF getMimeType(mediaPath) = <<"application", "pdf">>
         THEN Payload("document", getMimeType(mediaPath), Basename(mediaPath),
                      << message >>, << >>)
         ELSE Payload("document", getMimeType(mediaPath), Basename(mediaPath),
                      << >>, << >>)
    ELSE Payload("text", << >>, << >>, << >>, << message >>)

\* what a sendMessage call that got as far as its try block comes to (lines
\* 517-561): the final status of its log row and the payloads handed to the
\* transport; ok tells whether socket.sendMessage resolves
MediaSend(mediaPath, exists, message, ok) ==
    [status |-> IF ok THEN "sent" ELSE "failed",
     payloads |-> << MediaPayload(mediaPath, exists, message) >>]

\* what a sendMessageWithMediaUrl call comes to: the final status of its log
\* row and the payloads handed to the transport
UrlSend(status, payloads) == [status |-> status, payloads |-> payloads]

\* response.headers.get('content-type') || 'application/octet-stream', line 634
ContentTypeOf(header) == IF header = << >> THEN <<"application", "octet-stream">> ELSE header

\* path.basename(urlPath) || fallback, lines 651 and 658
FileNameOr(urlPath, fallback) == IF Basename(urlPath) = << >> THEN fallback ELSE Basename(urlPath)

\* sendMessageWithMediaUrl, lines 625-669, for a response (ok, Content-Type
\* header) to the GET of a URL with this path; the transport accepts what it
\* is handed
UrlPayload(ok, header, urlPath, message) ==
    LET contentType == ContentTypeOf(header)
        ext == ExtOf(urlPath)
    IN  IF ~ok THEN UrlSend("failed", << >>)
        ELSE IF contentType[1] = "image" \/ ext \in {".jpg", ".jpeg", ".png", ".gif", ".webp"}
        THEN UrlSend("sent", << Payload("image", << >>, << >>, << message >>, << >>) >>)
        ELSE IF contentType[1] = "video" \/ ext \in {".mp4", ".avi", ".mov"}
        THEN UrlSend("sent", << Payload("video", << >>, << >>, << message >>, << >>) >>)
        ELSE IF contentType = <<"application", "pdf">> \/ ext = ".pdf"
        THEN UrlSend("sent", << Payload("document", <<"application", "pdf">>,
                                        FileNameOr(urlPath, <<"document", ".pdf">>),
                                        << message >>, << >>) >>)
        ELSE UrlSend("sent", << Payload("document", contentType,
                                        FileNameOr(urlPath, <<"file", "">>),
                                        << >>, << >>) >>)

\* how a call ended: its return value, or "throws"
Outcome(op, s, u, value) == [op |-> op, sessionId |-> s, userId |-> u, value |-> value]

Notification(s, status, detail, phone, n) ==
    [sessionId |-> s, status |-> status, detail |-> detail, phoneNumber |-> phone, num |-> n]

\* const cb = this.statusCallbacks.get(sessionId); if (cb) cb(status, data)
Notify(s, status, detail, phone, n) ==
    IF s \in statusCallbacks THEN << Notification(s, status, detail, phone, n) >> ELSE << >>

\* sessionRepository.update(id, patch): no effect when the row is absent
UpdateRow(table, s, patch) ==
    IF table[s].status = "none" THEN table
    ELSE [table EXCEPT ![s] = [f \in DOMAIN table[s] |->
                                  IF f \in DOMAIN patch THEN patch[f] ELSE table[s][f]]]

SocketsOf(s) == { t \in 1..Len(sockets) : sockets[t].sessionId = s }

\* a transport the supervisor made that it has not ended and that has not reported close
Live(t) == ~sockets[t].ended /\ sockets[t].conn # "close"

FreeSlots == { c \in InitSlots : inits[c].pc = "idle" }
FreeSlot == CHOOSE c \in FreeSlots : \A d \in FreeSlots : c <= d

\* a stopHealthCheck that clears every interval the service holds
stopHealthCheckEvery(s) == {}

\* stopHealthCheck(sessionId): clears the interval of the registered client
stopHealthCheck(s) ==
    IF clients[s].socket # 0 THEN healthTimers \ {clients[s].socket} ELSE healthTimers

\* a delete that leaves the registry as it is
RemoveClientKeeps(s) == clients

\* this.clients.delete(sessionId)
RemoveClient(s) == [clients EXCEPT ![s] = NoClient]

\* isSessionActive taken as "present in the map"
isSessionActivePresentOnly(s) == clients[s].socket # 0

\* isSessionActive, lines 469-472: !!client && !!client.socket.user
isSessionActive(s) == clients[s].socket # 0 /\ sockets[clients[s].socket].user # << >>

\* ------------------------------------------------ initializeClient

\* lines 229-238: end the transport of the registered connection, if any
EndExisting(s) ==
    IF clients[s].socket # 0
    THEN [sockets EXCEPT ![clients[s].socket].ended = TRUE]
    ELSE sockets

\* the code of initializeClient up to its first await (lines 228-248)
InitBegin(s, u, onQr, onStatus, phoneNumber, onPairingCode, retryCount) ==
    /\ FreeSlots # {}
    /\ healthTimers' = stopHealthCheck(s)
    /\ sockets' = EndExisting(s)
    /\ clients' = RemoveClient(s)
    /\ qrCallbacks' = IF onQr THEN qrCallbacks \cup {s} ELSE qrCallbacks
    /\ pairingCodeCallbacks' = IF onPairingCode THEN pairingCodeCallbacks \cup {s}
                               ELSE pairingCodeCallbacks
    /\ statusCallbacks' = IF onStatus THEN statusCallbacks \cup {s} ELSE statusCallbacks
    /\ inits' = [inits EXCEPT ![FreeSlot] =
                    [pc |-> "auth", sessionId |-> s, userId |-> u, retryCount |-> retryCount,
                     phoneNumber |-> phoneNumber, creds |-> initAuthCreds]]

\* WhatsappGateway.handleInitSession: the caller supplies session id and user id
InitializeClient(s, u) ==
    /\ InitBegin(s, u, TRUE, TRUE, NoPhone, FALSE, 0)
    /\ emitted' = << >>
    /\ outcome' = NoOutcome
    /\ UNCHANGED <<rows, nextId, timers, pairTimers, restoreQueue, campaigning,
                   applied, now, dispatcher>>

\* the catch block of initializeClient, lines 428-437
InitFailed(c) ==
    /\ inits' = [inits EXCEPT ![c] = IdleInit]
    /\ rows' = UpdateRow(rows, inits[c].sessionId, [status |-> "failed"])
    /\ emitted' = Notify(inits[c].sessionId, "error", "init", NoPhone, 0)
    /\ outcome' = Outcome("initializeClient", inits[c].sessionId, inits[c].userId, "throws")

\* useDBAuthState resumes: it throws when the row is gone, else creates and saves
\* fresh credentials when the row has none
InitLoadAuth(c) ==
    /\ inits[c].pc = "auth"
    /\ LET s == inits[c].sessionId IN
        IF rows[s].status = "none"
        THEN InitFailed(c)
        ELSE /\ inits' = [inits EXCEPT ![c].pc = "version",
                                       ![c].creds = IF rows[s].sessionData = NullData
                                                    THEN initAuthCreds
                                                    ELSE Parse(rows[s].sessionData)]
             /\ rows' = IF rows[s].sessionData = NullData
                         THEN UpdateRow(rows, s, [sessionData |-> NewCreds])
                         ELSE rows
             /\ emitted' = << >>
             /\ outcome' = NoOutcome
    /\ UNCHANGED <<nextId, clients, sockets, healthTimers, timers, callbacks,
                   pairTimers, restoreQueue, campaigning, applied, now, dispatcher>>

NewSocket(c) ==
    [sessionId |-> inits[c].sessionId, userId |-> inits[c].userId,
     conn |-> "connecting", ended |-> FALSE, user |-> << >>, code |-> 0,
     phoneNumber |-> inits[c].phoneNumber, creds |-> inits[c].creds,
     requested |-> FALSE, delivered |-> << >>]

\* lines 268-275: this.clients.set(sessionId, {socket, sessionId, userId, retryCount, lastActivity})
RegisterClient(c, t) ==
    [clients EXCEPT ![inits[c].sessionId] =
        [socket |-> t, userId |-> inits[c].userId, retryCount |-> inits[c].retryCount,
         lastActivity |-> now]]

\* lines 379, 423: setTimeout(requestCode, 3000) when a phone number was given
\* and the loaded credentials are not registered
SchedulePairing(c, t) ==
    IF inits[c].phoneNumber # NoPhone /\ ~inits[c].creds.registered
    THEN pairTimers \cup {t} ELSE pairTimers

\* fetchLatestBaileysVersion and makeWASocket succeed: the connection is registered
InitConnect(c, maxSockets) ==
    /\ inits[c].pc = "version"
    /\ Len(sockets) < maxSockets
    /\ sockets' = Append(sockets, NewSocket(c))
    /\ clients' = RegisterClient(c, Len(sockets) + 1)
    /\ pairTimers' = SchedulePairing(c, Len(sockets) + 1)
    /\ inits' = [inits EXCEPT ![c] = IdleInit]
    /\ emitted' = << >>
    /\ outcome' = Outcome("initializeClient", inits[c].sessionId, inits[c].userId, "returns")
    /\ UNCHANGED <<rows, nextId, healthTimers, timers, callbacks, restoreQueue, campaigning,
                   applied, now, dispatcher>>

\* fetchLatestBaileysVersion or makeWASocket throws
InitConnectFails(c) ==
    /\ inits[c].pc = "version"
    /\ InitFailed(c)
    /\ UNCHANGED <<nextId, clients, sockets, healthTimers, timers, callbacks,
                   pairTimers, restoreQueue, campaigning, applied, now, dispatcher>>

\* ------------------------------------------------ connection.update handler

\* the close handler with the retry budget tested by <= instead of <
CloseBranchOffByOne(category, currentRetryCount) ==
    IF category = "logged_out" THEN "logged_out"
    ELSE IF category = "fatal" THEN "fatal"
    ELSE IF currentRetryCount <= MAX_RETRIES THEN "retry"
    ELSE "max_retries"

\* which arm of the close handler runs (lines 301, 310, 318, 338)
CloseBranch(category, currentRetryCount) ==
    IF category = "logged_out" THEN "logged_out"
    ELSE IF category = "fatal" THEN "fatal"
    ELSE IF currentRetryCount < MAX_RETRIES THEN "retry"
    ELSE "max_retries"

\* the updates of the close handler with a logout that keeps the credentials
ClosePatchKeepsCreds(branch) ==
    CASE branch = "logged_out" -> [status |-> "disconnected"]
      [] branch = "fatal" -> [status |-> "failed"]
      [] branch = "retry" -> [status |-> "pending"]
      [] OTHER -> [status |-> "failed"]

\* the sessionRepository.update each arm issues (lines 303, 312, 326, 341)
ClosePatch(branch) ==
    CASE branch = "logged_out" -> [status |-> "disconnected", sessionData |-> NullData]
      [] branch = "fatal" -> [status |-> "failed"]
      [] branch = "retry" -> [status |-> "pending"]
      [] OTHER -> [status |-> "failed"]

\* lines 320-322: the delay of the reconnect, doubled for rate limits
ReconnectDelay(category, currentRetryCount, r) ==
    IF category = "rate_limited"
    THEN getRetryDelay(currentRetryCount, r) * 2
    ELSE getRetryDelay(currentRetryCount, r)

\* the setTimeout closure of line 330; the listeners it passes on are the ones
\* initializeClient has already put into the callback maps
ReconnectTimer(t, currentRetryCount, delay) ==
    [sessionId |-> sockets[t].sessionId, userId |-> sockets[t].userId,
     retryCount |-> currentRetryCount + 1, delay |-> delay,
     phoneNumber |-> sockets[t].phoneNumber]

\* what the close handler schedules (lines 330-336)
ScheduleReconnect(t, branch, currentRetryCount, delay) ==
    IF branch = "retry"
    THEN timers (+) SetToBag({ReconnectTimer(t, currentRetryCount, delay)})
    ELSE timers

\* what the close handler tells the status listener (lines 307, 315, 344)
CloseNotice(s, branch, statusCode) ==
    CASE branch = "logged_out" -> Notify(s, "disconnected", "logged_out", NoPhone, 0)
      [] branch = "fatal" -> Notify(s, "error", "fatal", NoPhone, statusCode)
      [] branch = "max_retries" -> Notify(s, "error", "maxRetriesExceeded", NoPhone, statusCode)
      [] OTHER -> << >>

\* connection === 'close' (lines 290-346)
TransportClose(t, code, r) ==
    /\ t \in 1..Len(sockets)
    /\ sockets[t].conn # "close"
    /\ LET s == sockets[t].sessionId
           statusCode == StatusCodeOf(code)
           category == categorizeError(statusCode)
           currentRetryCount == clients[s].retryCount
           branch == CloseBranch(category, currentRetryCount)
           delay == ReconnectDelay(category, currentRetryCount, r)
       IN  /\ sockets' = [sockets EXCEPT ![t].conn = "close", ![t].code = statusCode]
           /\ healthTimers' = stopHealthCheck(s)
           /\ clients' = RemoveClient(s)
           /\ rows' = UpdateRow(rows, s, ClosePatch(branch))
           /\ timers' = ScheduleReconnect(t, branch, currentRetryCount, delay)
           /\ emitted' = CloseNotice(s, branch, statusCode)
           /\ outcome' = NoOutcome
    /\ UNCHANGED <<nextId, callbacks, inits, pairTimers, restoreQueue, campaigning,
                   applied, now, dispatcher>>

\* a close handler that issues its update before it releases the connection
TransportCloseUpdateFirst(t, code) ==
    /\ t \in 1..Len(sockets)
    /\ sockets[t].conn # "close"
    /\ sockets' = [sockets EXCEPT ![t].conn = "close", ![t].code = StatusCodeOf(code)]
    /\ emitted' = << >>
    /\ outcome' = Outcome("connection.update", sockets[t].sessionId, sockets[t].userId, "throws")
    /\ UNCHANGED <<rows, nextId, clients, healthTimers, timers, callbacks, inits,
                   pairTimers, restoreQueue, campaigning, applied, now, dispatcher>>

\* connection === 'close' when the sessionRepository.update of the arm taken
\* (lines 303, 312, 326, 341) rejects: the handler stops there, after lines 298-299
TransportCloseUpdateFails(t, code) ==
    /\ t \in 1..Len(sockets)
    /\ sockets[t].conn # "close"
    /\ sockets' = [sockets EXCEPT ![t].conn = "close", ![t].code = StatusCodeOf(code)]
    /\ healthTimers' = stopHealthCheck(sockets[t].sessionId)
    /\ clients' = RemoveClient(sockets[t].sessionId)
    /\ emitted' = << >>
    /\ outcome' = Outcome("connection.update", sockets[t].sessionId, sockets[t].userId, "throws")
    /\ UNCHANGED <<rows, nextId, timers, callbacks, inits, pairTimers, restoreQueue, campaigning,
                   applied, now, dispatcher>>

\* the reconnect timer fires (lines 330-336)
ReconnectFire(tm) ==
    /\ BagIn(tm, timers)
    /\ timers' = timers (-) SetToBag({tm})
    /\ emitted' = Notify(tm.sessionId, "reconnecting", "", NoPhone, tm.retryCount + 1)
    /\ outcome' = NoOutcome
    /\ InitBegin(tm.sessionId, tm.userId, FALSE, FALSE, tm.phoneNumber, FALSE, tm.retryCount)
    /\ UNCHANGED <<rows, nextId, pairTimers, restoreQueue, campaigning, applied, now, dispatcher>>

\* the open handler without the reset of the retry count
ResetRetryNever(s) ==
    IF clients[s].socket # 0
    THEN [clients EXCEPT ![s].lastActivity = now]
    ELSE clients

\* lines 354-358: reset the retry count of the registered connection
ResetRetry(s) ==
    IF clients[s].socket # 0
    THEN [clients EXCEPT ![s].retryCount = 0, ![s].lastActivity = now]
    ELSE clients

\* lines 360-363; an undefined phone number leaves the column alone
OpenPatch(id) ==
    IF id = << >> THEN [status |-> "connected"]
    ELSE [status |-> "connected", phoneNumber |-> PhoneOf(id)]

\* startHealthCheck(sessionId), lines 154-163: the registered client gets an interval
startHealthCheck(s) ==
    IF clients[s].socket # 0 THEN healthTimers \cup {clients[s].socket} ELSE healthTimers

\* connection === 'open' (lines 347-372)
TransportOpen(t, id) ==
    /\ t \in 1..Len(sockets)
    /\ sockets[t].conn = "connecting"
    /\ ~sockets[t].ended
    /\ LET s == sockets[t].sessionId
       IN  /\ sockets' = [sockets EXCEPT ![t].conn = "open", ![t].user = id]
           /\ clients' = ResetRetry(s)
           /\ rows' = UpdateRow(rows, s, OpenPatch(id))
           /\ healthTimers' = startHealthCheck(s)
           /\ emitted' = Notify(s, "ready", "", IF id = << >> THEN NoPhone ELSE PhoneOf(id), 0)
           /\ outcome' = NoOutcome
    /\ UNCHANGED <<nextId, timers, callbacks, inits, pairTimers, restoreQueue, campaigning,
                   applied, now, dispatcher>>

\* ------------------------------------------------ health check

\* which way a tick of the interval held by the client object of socket t goes
HealthFinding(t) ==
    LET s == sockets[t].sessionId IN
    IF clients[s].socket = 0 THEN "cleared"
    ELSE IF sockets[clients[s].socket].user # << >> THEN "healthy"
    ELSE IF rows[s].status # "none" /\ rows[s].sessionData # NullData THEN "reinitialize"
    ELSE "skipped"

\* one tick of the interval held by the client object of socket t (lines 163-184)
HealthTick(t) ==
    /\ t \in healthTimers
    /\ LET s == sockets[t].sessionId IN
        IF clients[s].socket = 0
        THEN /\ healthTimers' = healthTimers \ {t}
             /\ UNCHANGED <<clients, sockets, callbacks, inits>>
        ELSE IF sockets[clients[s].socket].user = << >>
        THEN IF rows[s].status # "none" /\ rows[s].sessionData # NullData
             THEN InitBegin(s, rows[s].userId, FALSE, FALSE, NoPhone, FALSE, 0)
             ELSE UNCHANGED <<clients, sockets, healthTimers, callbacks, inits>>
        ELSE /\ clients' = [clients EXCEPT ![s].lastActivity = now]
             /\ UNCHANGED <<healthTimers, sockets, callbacks, inits>>
    /\ emitted' = << >>
    /\ outcome' = Outcome("healthCheck", sockets[t].sessionId, 0, HealthFinding(t))
    /\ UNCHANGED <<rows, nextId, timers, pairTimers, restoreQueue, campaigning,
                   applied, now, dispatcher>>

\* ------------------------------------------------ pairing and credentials

\* WhatsappService.initializeClient called with a phone number and all three listeners
InitializeClientWithPhone(s, u, phoneNumber) ==
    /\ InitBegin(s, u, TRUE, TRUE, phoneNumber, TRUE, 0)
    /\ emitted' = << >>
    /\ outcome' = NoOutcome
    /\ UNCHANGED <<rows, nextId, timers, pairTimers, restoreQueue, campaigning,
                   applied, now, dispatcher>>

\* a handler that forwards every QR
QrWantedAlways(t) == TRUE

\* line 283: qr && !phoneNumber
QrWanted(t) == sockets[t].phoneNumber = NoPhone

\* what the listener of kind `artifact` is handed, when the session has one
Forward(t, listeners, artifact) ==
    IF sockets[t].sessionId \in listeners
    THEN << Notification(sockets[t].sessionId, artifact, "", NoPhone, 0) >>
    ELSE << >>

\* the artifacts the listeners have been handed on behalf of transport t
Delivered(t, listeners, artifact) ==
    IF sockets[t].sessionId \in listeners
    THEN [sockets EXCEPT ![t].delivered = Append(@, artifact)]
    ELSE sockets

\* connection.update carrying a QR (lines 283-288); connection is undefined in it
TransportQr(t) ==
    /\ t \in 1..Len(sockets)
    /\ sockets[t].conn = "connecting"
    /\ Len(sockets[t].delivered) < MaxArtifacts
    /\ sockets' = IF QrWanted(t) THEN Delivered(t, qrCallbacks, "qr") ELSE sockets
    /\ emitted' = IF QrWanted(t) THEN Forward(t, qrCallbacks, "qr") ELSE << >>
    /\ outcome' = NoOutcome
    /\ UNCHANGED <<rows, nextId, clients, healthTimers, timers, callbacks, inits, pairTimers,
                   restoreQueue, campaigning, applied, now, dispatcher>>

\* a saveCreds that writes only once the credentials are registered
saveCredsWhenRegistered(table, s, creds) ==
    IF creds.registered THEN UpdateRow(table, s, [sessionData |-> Stringify(creds)]) ELSE table

\* saveCreds, db-auth-state.ts lines 49-52
saveCreds(table, s, creds) == UpdateRow(table, s, [sessionData |-> Stringify(creds)])

\* the transport changes the credentials and emits creds.update; saveCreds is the
\* listener (line 376)
CredsUpdate(t, registered) ==
    /\ t \in 1..Len(sockets)
    /\ sockets[t].creds.rev < MaxCredsUpdates
    /\ sockets' = [sockets EXCEPT ![t].creds = [registered |-> @.registered \/ registered,
                                                rev |-> @.rev + 1]]
    /\ rows' = saveCreds(rows, sockets[t].sessionId, sockets'[t].creds)
    /\ emitted' = << >>
    /\ outcome' = NoOutcome
    /\ UNCHANGED <<nextId, clients, healthTimers, timers, callbacks, inits, pairTimers,
                   restoreQueue, campaigning, applied, now, dispatcher>>

\* state.keys.set(data), db-auth-state.ts lines 76-88: the key store changes and
\* saveCreds is awaited
KeysSet(t) ==
    /\ t \in 1..Len(sockets)
    /\ sockets[t].creds.rev < MaxCredsUpdates
    /\ sockets' = [sockets EXCEPT ![t].creds.rev = @ + 1]
    /\ rows' = saveCreds(rows, sockets[t].sessionId, sockets'[t].creds)
    /\ emitted' = << >>
    /\ outcome' = NoOutcome
    /\ UNCHANGED <<nextId, clients, healthTimers, timers, callbacks, inits, pairTimers,
                   restoreQueue, campaigning, applied, now, dispatcher>>

\* requestCode without its second look at the credentials
AlreadyRegisteredNever(t) == FALSE

\* line 386: state.creds.registered when the settle delay has expired
AlreadyRegistered(t) == sockets[t].creds.registered

\* requestCode, lines 383-420, run by the timer of line 423; ok tells whether
\* socket.requestPairingCode resolves
PairingFire(t, ok) ==
    /\ t \in pairTimers
    /\ pairTimers' = pairTimers \ {t}
    /\ LET s == sockets[t].sessionId
           u == sockets[t].userId
       IN  IF AlreadyRegistered(t)
           THEN /\ sockets' = sockets
                /\ emitted' = << >>
                /\ outcome' = Outcome("requestCode", s, u, "skipped")
           ELSE IF Len(FormatPhone(sockets[t].phoneNumber)) < 10
           THEN /\ sockets' = sockets
                /\ emitted' = Notify(s, "error", "pairing", NoPhone, 0)
                /\ outcome' = Outcome("requestCode", s, u, "too short")
           ELSE IF ~ok
           THEN /\ sockets' = [sockets EXCEPT ![t].requested = TRUE]
                /\ emitted' = Notify(s, "error", "pairing", NoPhone, 0)
                /\ outcome' = Outcome("requestCode", s, u, "rejected")
           ELSE /\ sockets' = [Delivered(t, pairingCodeCallbacks, "code")
                                  EXCEPT ![t].requested = TRUE]
                /\ emitted' = Forward(t, pairingCodeCallbacks, "code")
                /\ outcome' = Outcome("requestCode", s, u, "code")
    /\ UNCHANGED <<rows, nextId, clients, healthTimers, timers, callbacks, inits,
                   restoreQueue, campaigning, applied, now, dispatcher>>

\* ------------------------------------------------ helpers called on their own

\* a call of helper fn with these arguments returned this
Call(fn, args, result) == [fn |-> fn, args |-> args, result |-> result]

\* everything the supervisor holds is left as it is
SupervisorUnchanged ==
    UNCHANGED <<rows, nextId, clients, sockets, healthTimers, timers, callbacks, pairTimers,
                inits, restoreQueue, campaigning, now, emitted, dispatcher, outcome>>

\* getRetryDelay(retryCount) with Math.random() = r / 1000
ApplyGetRetryDelay(retryCount, r) ==
    /\ applied' = Call("getRetryDelay", <<retryCount, r>>, getRetryDelay(retryCount, r))
    /\ SupervisorUnchanged

\* the recipient formatting of sendMessage applied to a recipient
ApplyFormatRecipient(recipient) ==
    /\ applied' = Call("formatRecipient", <<recipient>>, FormatRecipient(recipient))
    /\ SupervisorUnchanged

\* the address a send was given is used as the recipient of another send
ApplyFormatRecipientAgain ==
    /\ applied.fn = "formatRecipient"
    /\ applied' = Call("formatRecipient", <<applied.result>>, FormatRecipient(applied.result))
    /\ SupervisorUnchanged

\* the payload selection of sendMessage applied to a media path and a body
ApplyMediaPayload(mediaPath, exists, message) ==
    /\ applied' = Call("payload", <<mediaPath, exists, message>>,
                        MediaPayload(mediaPath, exists, message))
    /\ SupervisorUnchanged

\* the try block of sendMessage and the save after it, for a media path and a
\* transport that accepts or rejects
ApplyMediaSend(mediaPath, exists, message, ok) ==
    /\ applied' = Call("mediaSend", <<mediaPath, exists, message, ok>>,
                        MediaSend(mediaPath, exists, message, ok))
    /\ SupervisorUnchanged

\* the try block of sendMessageWithMediaUrl applied to a response
ApplyUrlPayload(ok, header, urlPath, message) ==
    /\ applied' = Call("urlPayload", <<ok, header, urlPath, message>>,
                        UrlPayload(ok, header, urlPath, message))
    /\ SupervisorUnchanged

\* ------------------------------------------------ session rows

\* createSession, lines 210-217
CreateSession(u) ==
    /\ nextId \in Sessions
    /\ rows' = [rows EXCEPT ![nextId] = [userId |-> u, status |-> "pending",
                                         sessionData |-> NullData, phoneNumber |-> NoPhone]]
    /\ nextId' = nextId + 1
    /\ emitted' = << >>
    /\ outcome' = NoOutcome
    /\ UNCHANGED <<clients, sockets, healthTimers, timers, callbacks, inits,
                   pairTimers, restoreQueue, campaigning, applied, now, dispatcher>>

\* getSession looking the row up by id alone
OwnedByAnyone(s, u) == rows[s].status # "none"

\* getSession(sessionId, userId) finds a row
Owned(s, u) == rows[s].status # "none" /\ rows[s].userId = u

\* message_logs.sessionId is a foreign key with onDelete: 'SET NULL'
DissociateLogs(s) ==
    [k \in DOMAIN logs |-> IF logs[k].sessionId = s
                           THEN [logs[k] EXCEPT !.sessionId = 0] ELSE logs[k]]

\* deleteSession, lines 448-467
DeleteSession(s, u) ==
    /\ IF Owned(s, u)
       THEN /\ healthTimers' = stopHealthCheck(s)
            /\ sockets' = EndExisting(s)
            /\ clients' = RemoveClient(s)
            /\ rows' = [rows EXCEPT ![s] = NoRow]
            /\ rateLimits' = [rateLimits EXCEPT ![s] = NoEntry]
            /\ logs' = DissociateLogs(s)
       ELSE UNCHANGED <<healthTimers, sockets, clients, rows, rateLimits, logs>>
    /\ emitted' = << >>
    /\ outcome' = Outcome("deleteSession", s, u, IF Owned(s, u) THEN "true" ELSE "false")
    /\ UNCHANGED <<nextId, timers, callbacks, inits, pairTimers, restoreQueue, campaigning,
                   applied, now,
                   rateCheck, passedAt, sends>>

\* deleteSession when sessionRepository.delete (line 465) rejects
DeleteSessionDeleteFails(s, u) ==
    /\ Owned(s, u)
    /\ healthTimers' = stopHealthCheck(s)
    /\ sockets' = EndExisting(s)
    /\ clients' = RemoveClient(s)
    /\ rateLimits' = [rateLimits EXCEPT ![s] = NoEntry]
    /\ emitted' = << >>
    /\ outcome' = Outcome("deleteSession", s, u, "throws")
    /\ UNCHANGED <<rows, nextId, timers, callbacks, inits, pairTimers, restoreQueue, campaigning,
                   applied, now,
                   rateCheck, passedAt, logs, sends>>

\* the transports of the connections in the registry
Registered == { clients[s].socket : s \in Sessions } \ {0}

\* onModuleDestroy, lines 196-208: every registered connection has its health
\* check stopped and end() called on its transport (an exception of end() is
\* caught per connection), then the registry and the rate limits are cleared;
\* the callback maps are not touched
Shutdown ==
    /\ sockets' = [t \in DOMAIN sockets |->
                      IF t \in Registered THEN [sockets[t] EXCEPT !.ended = TRUE]
                      ELSE sockets[t]]
    /\ healthTimers' = healthTimers \ Registered
    /\ clients' = [s \in Sessions |-> NoClient]
    /\ rateLimits' = [s \in Sessions |-> NoEntry]
    /\ emitted' = << >>
    /\ outcome' = Outcome("onModuleDestroy", 0, 0, "returns")
    /\ UNCHANGED <<rows, nextId, timers, callbacks, inits, pairTimers, restoreQueue, campaigning,
                   applied, now,
                   rateCheck, passedAt, logs, sends>>

\* the sessions of the list that onModuleInit passes without an await: the ones
\* whose snapshot has no sessionData (line 85)
RECURSIVE SkipNoData(_)
SkipNoData(queue) ==
    IF queue = << >> THEN << >>
    ELSE IF Head(queue).sessionData = NullData THEN SkipNoData(Tail(queue))
    ELSE queue

\* onModuleInit, lines 84-94: the loop runs on to the next session of the list
\* read at start that has sessionData, starts its initializeClient and waits
AutoRestore ==
    /\ restoreQueue # << >>
    /\ IF SkipNoData(restoreQueue) = << >>
       THEN /\ restoreQueue' = << >>
            /\ UNCHANGED <<clients, sockets, healthTimers, callbacks, inits>>
       ELSE /\ InitBegin(Head(SkipNoData(restoreQueue)).id,
                         Head(SkipNoData(restoreQueue)).userId,
                         FALSE, FALSE, NoPhone, FALSE, 0)
            /\ restoreQueue' = Tail(SkipNoData(restoreQueue))
    /\ emitted' = << >>
    /\ outcome' = NoOutcome
    /\ UNCHANGED <<rows, nextId, timers, pairTimers, now, dispatcher, applied, campaigning>>

\* ------------------------------------------------ rate limiter

\* checkRateLimit with the limit tested by > instead of >=
checkRateLimitOffByOne(entry, t) ==
    IF entry.count = 0 \/ t > entry.resetTime
    THEN [allowed |-> TRUE, waitTime |-> 0,
          entry |-> [count |-> 1, resetTime |-> t + RATE_LIMIT_WINDOW]]
    ELSE IF entry.count > RATE_LIMIT_MAX
    THEN [allowed |-> FALSE, waitTime |-> entry.resetTime - t, entry |-> entry]
    ELSE [allowed |-> TRUE, waitTime |-> 0, entry |-> [entry EXCEPT !.count = @ + 1]]

\* checkRateLimit, lines 136-151, on the entry of the session at time t
checkRateLimit(entry, t) ==
    IF entry.count = 0 \/ t > entry.resetTime
    THEN [allowed |-> TRUE, waitTime |-> 0,
          entry |-> [count |-> 1, resetTime |-> t + RATE_LIMIT_WINDOW]]
    ELSE IF entry.count >= RATE_LIMIT_MAX
    THEN [allowed |-> FALSE, waitTime |-> entry.resetTime - t, entry |-> entry]
    ELSE [allowed |-> TRUE, waitTime |-> 0, entry |-> [entry EXCEPT !.count = @ + 1]]

\* the calls of the session that passed less than a window ago, this one included
Passes(s, allowed) ==
    IF allowed
    THEN [passedAt EXCEPT ![s] =
            Append(SelectSeq(@, LAMBDA t : now - t < RATE_LIMIT_WINDOW), now)]
    ELSE passedAt

RateResult(s) ==
    [sessionId |-> s, allowed |-> checkRateLimit(rateLimits[s], now).allowed,
     waitTime |-> checkRateLimit(rateLimits[s], now).waitTime]

\* one call of checkRateLimit(sessionId)
CheckAndConsume(s) ==
    /\ rateLimits' = [rateLimits EXCEPT ![s] = checkRateLimit(rateLimits[s], now).entry]
    /\ rateCheck' = RateResult(s)
    /\ passedAt' = Passes(s, checkRateLimit(rateLimits[s], now).allowed)
    /\ emitted' = << >>
    /\ outcome' = NoOutcome
    /\ UNCHANGED <<rows, nextId, clients, sockets, healthTimers, timers, callbacks,
                   inits, pairTimers, restoreQueue, campaigning, applied, now, logs, sends>>

\* time passes
AdvanceClock(d) ==
    /\ now + d <= MaxClock
    /\ now' = now + d
    /\ emitted' = << >>
    /\ outcome' = NoOutcome
    /\ UNCHANGED <<rows, nextId, clients, sockets, healthTimers, timers, callbacks,
                   inits, pairTimers, restoreQueue, campaigning, applied, dispatcher>>

\* ------------------------------------------------ sendMessage

\* one sendMessage / sendMessageWithMediaUrl call: where it stands, the row and the
\* transport it holds, the error it threw or recorded, and the seconds named in a
\* rate-limit error
SendCall(s, u, pc, logId, socket, error, seconds) ==
    [sessionId |-> s, userId |-> u, pc |-> pc, logId |-> logId, socket |-> socket,
     error |-> error, seconds |-> seconds]

\* the wait of the rate-limit error rounded down instead of up
RetryAfterSecondsFloor(waitTime) == waitTime \div 1000

\* Math.ceil(rateCheck.waitTime / 1000), line 490
RetryAfterSeconds(waitTime) == (waitTime + 999) \div 1000

\* a row created with a terminal status
PendingLogAlreadySent(s, u) == [userId |-> u, sessionId |-> s, status |-> "sent", error |-> ""]

\* messageLogRepository.create({..., status: PENDING}), lines 507-514
PendingLog(s, u) == [userId |-> u, sessionId |-> s, status |-> "pending", error |-> ""]

\* sendMessage up to the await of the first save (lines 482-515)
SendBegin(s, u) ==
    /\ Len(sends) < MaxSends
    /\ IF clients[s].socket = 0
       THEN /\ sends' = Append(sends, SendCall(s, u, "done", 0, 0, "Session not active", 0))
            /\ UNCHANGED <<clients, rateLimits, rateCheck, passedAt, logs>>
       ELSE /\ rateLimits' = [rateLimits EXCEPT ![s] = checkRateLimit(rateLimits[s], now).entry]
            /\ rateCheck' = RateResult(s)
            /\ passedAt' = Passes(s, checkRateLimit(rateLimits[s], now).allowed)
            /\ IF ~checkRateLimit(rateLimits[s], now).allowed
               THEN /\ sends' = Append(sends,
                                SendCall(s, u, "done", 0, 0, "Rate limit exceeded",
                                    RetryAfterSeconds(checkRateLimit(rateLimits[s], now).waitTime)))
                    /\ UNCHANGED <<clients, logs>>
               ELSE /\ clients' = [clients EXCEPT ![s].lastActivity = now]
                    /\ logs' = Append(logs, PendingLog(s, u))
                    /\ sends' = Append(sends, SendCall(s, u, "saved", Len(logs) + 1,
                                                       clients[s].socket, "", 0))
    /\ emitted' = << >>
    /\ outcome' = NoOutcome
    /\ UNCHANGED <<rows, nextId, sockets, healthTimers, timers, callbacks, inits,
                   pairTimers, restoreQueue, applied, now>>

\* a sendMessage call whose caller keeps nothing of its own
SendStart(s, u) == SendBegin(s, u) /\ UNCHANGED campaigning

\* the first save has returned: the payload is handed to the transport, or the
\* download of the remote media begins (lines 517-550, 625-661)
SendDispatch(k) ==
    /\ k \in 1..Len(sends)
    /\ sends[k].pc = "saved"
    /\ sends' = [sends EXCEPT ![k].pc = "sending"]
    /\ emitted' = << >>
    /\ outcome' = NoOutcome
    /\ UNCHANGED <<rows, nextId, clients, sockets, healthTimers, timers, callbacks,
                   inits, pairTimers, restoreQueue, campaigning, applied, now, rateLimits, rateCheck, passedAt, logs>>

\* sendMessage without its catch block: a failed send leaves the row as it was
FinalStatusLeavesPending(ok) == IF ok THEN "sent" ELSE "pending"

\* the status sendMessage gives the row once the transport has answered (lines 552-556)
FinalStatus(ok) == IF ok THEN "sent" ELSE "failed"

\* the transport call resolves or rejects; the row is saved and returned (lines 552-561)
SendResult(k, ok) ==
    /\ k \in 1..Len(sends)
    /\ sends[k].pc = "sending"
    /\ sends' = [sends EXCEPT ![k].pc = "done",
                              ![k].error = IF ok THEN "" ELSE "send failed"]
    /\ logs' = [logs EXCEPT ![sends[k].logId].status = FinalStatus(ok),
                            ![sends[k].logId].error = IF ok THEN "" ELSE "send failed"]
    /\ emitted' = << >>
    /\ outcome' = NoOutcome
    /\ UNCHANGED <<rows, nextId, clients, sockets, healthTimers, timers, callbacks,
                   inits, pairTimers, restoreQueue, campaigning, applied, now, rateLimits, rateCheck, passedAt>>

\* ------------------------------------------------ callers of sendMessage

\* WhatsappController.sendMessage (whatsapp.controller.ts): getSession(sessionId,
\* userId) must find the row before sendMessage is called
ControllerSend(s, u) ==
    IF Owned(s, u)
    THEN SendStart(s, u)
    ELSE /\ emitted' = << >>
         /\ outcome' = Outcome("sendMessage", s, u, "Session not found")
         /\ UNCHANGED <<rows, nextId, clients, sockets, healthTimers, timers, callbacks,
                        inits, pairTimers, restoreQueue, campaigning, applied, now, dispatcher>>

\* the sessions of user u that isSessionActive accepts
ActiveSessionsOf(u) == { s \in Sessions : rows[s].status # "none" /\ rows[s].userId = u
                                          /\ isSessionActive(s) }

\* PublicApiController.sendWhatsApp up to its sendMessage call: the key's user
\* sends through one of their own active sessions (find() names no order)
ApiSend(u) ==
    IF ActiveSessionsOf(u) # {}
    THEN \E s \in ActiveSessionsOf(u) : SendStart(s, u)
    ELSE /\ emitted' = << >>
         /\ outcome' = Outcome("sendWhatsApp", 0, u, "No active WhatsApp session found")
         /\ UNCHANGED <<rows, nextId, clients, sockets, healthTimers, timers, callbacks,
                        inits, pairTimers, restoreQueue, campaigning, applied, now, dispatcher>>

\* what sendWhatsApp answers: success: false when sendMessage threw, else
\* success: true together with the status of the returned log
ApiReply(thrown, status) ==
    IF thrown THEN "success: false"
    ELSE IF status = "sent" THEN "success: true, status: sent"
    ELSE IF status = "failed" THEN "success: true, status: failed"
    ELSE "success: true, status: pending"

\* a sendMessage call that threw returned no log
Thrown(k) == sends[k].logId = 0

\* the controller that made sendMessage call k answers; the session controller's
\* { success: true, messageLog: log } carries the same two facts as the answer
\* of sendWhatsApp
ApiReport(k) ==
    /\ k \in 1..Len(sends)
    /\ sends[k].pc = "done"
    /\ emitted' = << >>
    /\ outcome' = Outcome("sendWhatsApp", sends[k].sessionId, sends[k].userId,
                          ApiReply(Thrown(k), IF Thrown(k) THEN ""
                                              ELSE logs[sends[k].logId].status))
    /\ UNCHANGED <<rows, nextId, clients, sockets, healthTimers, timers, callbacks,
                   inits, pairTimers, restoreQueue, campaigning, applied, now, dispatcher>>

\* ------------------------------------------------ campaigns

\* CampaignsService.create(userId, dto): dto.sessionId is stored as given
\* (0: the caller gave none)
CreateCampaign(u, s) ==
    /\ campaign.status = "none"
    /\ campaign' = [NoCampaign EXCEPT !.userId = u, !.sessionId = s, !.status = "draft"]
    /\ emitted' = << >>
    /\ outcome' = Outcome("create", s, u, "returns")
    /\ UNCHANGED <<rows, nextId, clients, sockets, healthTimers, timers, callbacks,
                   inits, pairTimers, restoreQueue, runs, applied, now, dispatcher>>

\* findOne(campaignId, userId) finds the campaign
OwnsCampaign(u) == campaign.status # "none" /\ campaign.userId = u

\* addRecipients(campaignId, userId, [one number])
AddRecipient(u) ==
    /\ Len(campaign.recipients) < MaxRecipients
    /\ IF OwnsCampaign(u)
       THEN /\ campaign' = [campaign EXCEPT !.recipients = Append(@, "pending"),
                                            !.totalRecipients = @ + 1]
            /\ outcome' = Outcome("addRecipients", campaign.sessionId, u, "returns")
       ELSE /\ campaign' = campaign
            /\ outcome' = Outcome("addRecipients", 0, u, "Campaign not found")
    /\ emitted' = << >>
    /\ UNCHANGED <<rows, nextId, clients, sockets, healthTimers, timers, callbacks,
                   inits, pairTimers, restoreQueue, runs, applied, now, dispatcher>>

\* one sendCampaignMessages invocation: the arguments it was given (recipients
\* is the list as startCampaign read it), the recipient it is at, where it
\* stands, the sendMessage call it awaits, the status it is recording and the
\* counts updateRecipientStatus has read
Run(u, s, recipients) ==
    [userId |-> u, sessionId |-> s, recipients |-> recipients, pos |-> 0, pc |-> "loop",
     send |-> 0, status |-> "", sentCount |-> 0, failedCount |-> 0, totalRecipients |-> 0]

\* why startCampaign refuses, "" when it does not (lines 302-314)
StartRefusal(u) ==
    IF ~OwnsCampaign(u) THEN "Campaign not found"
    ELSE IF campaign.sessionId = 0 THEN "No WhatsApp session assigned to campaign"
    ELSE IF ~isSessionActive(campaign.sessionId) THEN "WhatsApp session is not connected"
    ELSE IF Len(campaign.recipients) = 0 THEN "No recipients in campaign"
    ELSE ""

\* startCampaign(campaignId, userId), lines 301-324
StartCampaign(u) ==
    /\ Len(runs) < MaxRuns
    /\ IF StartRefusal(u) # ""
       THEN /\ outcome' = Outcome("startCampaign", 0, u, StartRefusal(u))
            /\ UNCHANGED <<campaign, runs>>
       ELSE /\ campaign' = [campaign EXCEPT !.status = "running"]
            /\ runs' = Append(runs, Run(u, campaign.sessionId, campaign.recipients))
            /\ outcome' = Outcome("startCampaign", campaign.sessionId, u, "returns")
    /\ emitted' = << >>
    /\ UNCHANGED <<rows, nextId, clients, sockets, healthTimers, timers, callbacks,
                   inits, pairTimers, restoreQueue, applied, now, dispatcher>>

\* the next recipient of the run's list that the list shows as PENDING (line
\* 331), 0 when there is none
NextPending(run) ==
    IF \E i \in (run.pos + 1)..Len(run.recipients) : run.recipients[i] = "pending"
    THEN CHOOSE i \in (run.pos + 1)..Len(run.recipients) :
            /\ run.recipients[i] = "pending"
            /\ \A j \in (run.pos + 1)..(i - 1) : run.recipients[j] # "pending"
    ELSE 0

\* the loop reaches a pending recipient and calls sendMessage (lines 330-354)
RunSend(r) ==
    /\ r \in 1..Len(runs)
    /\ runs[r].pc = "loop"
    /\ NextPending(runs[r]) # 0
    /\ SendBegin(runs[r].sessionId, runs[r].userId)
    /\ runs' = [runs EXCEPT ![r].pc = "sending", ![r].pos = NextPending(runs[r]),
                            ![r].send = Len(sends) + 1]
    /\ campaign' = campaign

\* lines 346-366: SENT once sendMessage has returned, FAILED when it threw
RecipientStatusAfter(thrown) == IF thrown THEN "failed" ELSE "sent"

\* sendMessage has returned or thrown: updateRecipientStatus is called and
\* updates the recipient row (lines 357, 366, 383-390)
RunReact(r) ==
    /\ r \in 1..Len(runs)
    /\ runs[r].pc = "sending"
    /\ sends[runs[r].send].pc = "done"
    /\ runs' = [runs EXCEPT ![r].pc = "read",
                            ![r].status = RecipientStatusAfter(Thrown(runs[r].send))]
    /\ campaign' = [campaign EXCEPT !.recipients[runs[r].pos] =
                                        RecipientStatusAfter(Thrown(runs[r].send))]
    /\ emitted' = << >>
    /\ outcome' = NoOutcome
    /\ UNCHANGED <<rows, nextId, clients, sockets, healthTimers, timers, callbacks,
                   inits, pairTimers, restoreQueue, applied, now, dispatcher>>

\* updateRecipientStatus reads the campaign (lines 392-399)
RunRead(r) ==
    /\ r \in 1..Len(runs)
    /\ runs[r].pc = "read"
    /\ runs' = [runs EXCEPT ![r].pc = "count",
                            ![r].sentCount = campaign.sentCount,
                            ![r].failedCount = campaign.failedCount,
                            ![r].totalRecipients = campaign.totalRecipients]
    /\ emitted' = << >>
    /\ outcome' = NoOutcome
    /\ UNCHANGED <<rows, nextId, clients, sockets, healthTimers, timers, callbacks,
                   inits, pairTimers, restoreQueue, campaign, applied, now, dispatcher>>

\* updateRecipientStatus writes the count it read plus one, and COMPLETED when
\* the counts it read plus one reach the total (lines 401-419)
RunCount(r) ==
    /\ r \in 1..Len(runs)
    /\ runs[r].pc = "count"
    /\ campaign' =
          [campaign EXCEPT
              !.sentCount = IF runs[r].status = "sent" THEN runs[r].sentCount + 1 ELSE @,
              !.failedCount = IF runs[r].status = "failed" THEN runs[r].failedCount + 1 ELSE @,
              !.status = IF runs[r].sentCount + runs[r].failedCount + 1
                              >= runs[r].totalRecipients
                         THEN "completed" ELSE @]
    /\ runs' = [runs EXCEPT ![r].pc = "loop"]
    /\ emitted' = << >>
    /\ outcome' = NoOutcome
    /\ UNCHANGED <<rows, nextId, clients, sockets, healthTimers, timers, callbacks,
                   inits, pairTimers, restoreQueue, applied, now, dispatcher>>

\* the loop is through its list (lines 369-375)
RunFinish(r) ==
    /\ r \in 1..Len(runs)
    /\ runs[r].pc = "loop"
    /\ NextPending(runs[r]) = 0
    /\ runs' = [runs EXCEPT ![r].pc = "done"]
    /\ campaign' = [campaign EXCEPT !.status =
                       IF campaign.sentCount + campaign.failedCount >= campaign.totalRecipients
                       THEN "completed" ELSE @]
    /\ emitted' = << >>
    /\ outcome' = NoOutcome
    /\ UNCHANGED <<rows, nextId, clients, sockets, healthTimers, timers, callbacks,
                   inits, pairTimers, restoreQueue, applied, now, dispatcher>>

\* ------------------------------------------------ specification

\* a row left by an earlier run of the process that onModuleInit restores
RestorableRow == [userId |-> 1, status |-> "connected", sessionData |-> RegisteredCreds,
                  phoneNumber |-> <<"9", "1">>]

\* a row left connected without auth state, and a row of a logged-in session
\* whose last run ended disconnected
UnrestorableRow == [userId |-> 1, status |-> "connected", sessionData |-> NullData,
                    phoneNumber |-> <<"9", "1">>]
DisconnectedRow == [userId |-> 1, status |-> "disconnected", sessionData |-> RegisteredCreds,
                    phoneNumber |-> <<"9", "1">>]

\* sessionRepository.find({ where: { status: CONNECTED } }), lines 80-82
RECURSIVE RestoreList(_, _)
RestoreList(table, s) ==
    IF s > NumSessions THEN << >>
    ELSE (IF table[s].status = "connected"
          THEN << [id |-> s, userId |-> table[s].userId,
                   sessionData |-> table[s].sessionData] >>
          ELSE << >>)
         \o RestoreList(table, s + 1)

\* the process has just started: the table holds what earlier runs left in it
Init ==
    /\ \E n \in 0..NumSessions :
          /\ rows = [s \in Sessions |-> IF s <= n THEN RestorableRow ELSE NoRow]
          /\ nextId = n + 1
    /\ restoreQueue = RestoreList(rows, 1)
    /\ clients = [s \in Sessions |-> NoClient]
    /\ sockets = << >>
    /\ healthTimers = {}
    /\ timers = EmptyBag
    /\ statusCallbacks = {}
    /\ qrCallbacks = {}
    /\ pairingCodeCallbacks = {}
    /\ pairTimers = {}
    /\ inits = [c \in InitSlots |-> IdleInit]
    /\ now = 0
    /\ emitted = << >>
    /\ outcome = NoOutcome
    /\ campaign = NoCampaign
    /\ runs = << >>
    /\ passedAt = [s \in Sessions |-> << >>]
    /\ applied = NoCall
    /\ rateLimits = [s \in Sessions |-> NoEntry]
    /\ rateCheck = NoCheck
    /\ logs = << >>
    /\ sends = << >>

\* initializeClient calls that are suspended at an await
Busy == Cardinality({ c \in InitSlots : inits[c].pc # "idle" })

\* The supervisor with at most MaxInits initializeClient calls in flight at a
\* time. A transport reports close only while the supervisor has not ended it.
Next ==
    \/ \E u \in Owners : CreateSession(u)
    \/ \E s \in Sessions, u \in Owners : Busy < MaxInits /\ InitializeClient(s, u)
    \/ \E c \in InitSlots : InitLoadAuth(c)
    \/ \E c \in InitSlots : InitConnect(c, MaxSockets)
    \/ \E c \in InitSlots : InitConnectFails(c)
    \/ \E t \in 1..Len(sockets), code \in StatusCodes, r \in RandomSamples :
          ~sockets[t].ended /\ TransportClose(t, code, r)
    \/ \E tm \in BagToSet(timers) : Busy < MaxInits /\ ReconnectFire(tm)
    \/ \E t \in 1..Len(sockets), id \in Identities : TransportOpen(t, id)
    \/ \E t \in 1..Len(sockets) : Busy < MaxInits /\ HealthTick(t)
    \/ \E s \in Sessions, u \in Users : DeleteSession(s, u)
    \/ Busy < MaxInits /\ AutoRestore

Spec == Init /\ [][Next]_vars

\* The same supervisor with overlapping initializeClient calls.
NextRace ==
    \/ \E u \in Owners : CreateSession(u)
    \/ \E s \in Sessions, u \in Owners : Busy < MaxRaceInits /\ InitializeClient(s, u)
    \/ \E c \in InitSlots : InitLoadAuth(c)
    \/ \E c \in InitSlots : InitConnect(c, MaxRaceSockets)
    \/ \E c \in InitSlots : InitConnectFails(c)
    \/ \E t \in 1..Len(sockets), code \in StatusCodes, r \in RandomSamples :
          ~sockets[t].ended /\ TransportClose(t, code, r)
    \/ \E tm \in BagToSet(timers) : Busy < MaxRaceInits /\ ReconnectFire(tm)
    \/ \E t \in 1..Len(sockets), id \in Identities : TransportOpen(t, id)
    \/ \E t \in 1..Len(sockets) : Busy < MaxRaceInits /\ HealthTick(t)
    \/ \E s \in Sessions, u \in Users : DeleteSession(s, u)
    \/ Busy < MaxRaceInits /\ AutoRestore

SpecRace == Init /\ [][NextRace]_vars

\* The supervisor with repository writes that can reject, and with shutdown.
NextFaulty ==
    \/ Next
    \/ \E t \in 1..Len(sockets), code \in StatusCodes :
          ~sockets[t].ended /\ TransportCloseUpdateFails(t, code)
    \/ \E s \in Sessions, u \in Owners : DeleteSessionDeleteFails(s, u)
    \/ Shutdown

SpecFaulty == Init /\ [][NextFaulty]_vars

\* the process starts on a table in which earlier runs left any kind of row
InitRestart ==
    /\ \E n \in 0..NumSessions :
          /\ rows \in [Sessions -> {NoRow, RestorableRow, UnrestorableRow, DisconnectedRow}]
          /\ \A s \in Sessions : rows[s] = NoRow <=> s > n
          /\ nextId = n + 1
    /\ restoreQueue = RestoreList(rows, 1)
    /\ clients = [s \in Sessions |-> NoClient]
    /\ sockets = << >>
    /\ healthTimers = {}
    /\ timers = EmptyBag
    /\ statusCallbacks = {}
    /\ qrCallbacks = {}
    /\ pairingCodeCallbacks = {}
    /\ pairTimers = {}
    /\ inits = [c \in InitSlots |-> IdleInit]
    /\ now = 0
    /\ emitted = << >>
    /\ outcome = NoOutcome
    /\ campaign = NoCampaign
    /\ runs = << >>
    /\ passedAt = [s \in Sessions |-> << >>]
    /\ applied = NoCall
    /\ rateLimits = [s \in Sessions |-> NoEntry]
    /\ rateCheck = NoCheck
    /\ logs = << >>
    /\ sends = << >>

SpecRestart == InitRestart /\ [][Next]_vars

\* One session left to its retry chain: the transport only ever reports
\* retryable closes, and nobody but the supervisor's own timers re-initializes
\* once a transport has been made.
NextRetry ==
    \/ \E u \in Owners : CreateSession(u)
    \/ \E s \in Sessions, u \in Owners :
          Busy < 1 /\ Len(sockets) = 0 /\ InitializeClient(s, u)
    \/ \E c \in InitSlots : InitLoadAuth(c)
    \/ \E c \in InitSlots : InitConnect(c, MaxRetrySockets)
    \/ \E c \in InitSlots : InitConnectFails(c)
    \/ \E t \in 1..Len(sockets), code \in RetryableCodes, r \in RandomSamples :
          ~sockets[t].ended /\ TransportClose(t, code, r)
    \/ \E tm \in BagToSet(timers) : Busy < 1 /\ ReconnectFire(tm)
    \/ Busy < 1 /\ AutoRestore

SpecRetry == Init /\ [][NextRetry]_vars

\* The rate limiter alone: calls of checkRateLimit as the clock advances.
NextRate ==
    \/ \E s \in Sessions : CheckAndConsume(s)
    \/ \E d \in ClockSteps : AdvanceClock(d)

SpecRate == Init /\ [][NextRate]_vars

\* A session that is connected and has used up its rate-limit window; the rows
\* of the sends that used it up are terminal and are left out.
InitBusy ==
    /\ rows = [s \in Sessions |-> [userId |-> 1, status |-> "connected",
                                   sessionData |-> NewCreds, phoneNumber |-> <<"9", "1">>]]
    /\ nextId = NumSessions + 1
    /\ restoreQueue = << >>
    /\ clients = [s \in Sessions |-> [socket |-> s, userId |-> 1, retryCount |-> 0,
                                      lastActivity |-> 0]]
    /\ sockets = [s \in Sessions |-> [sessionId |-> s, userId |-> 1, conn |-> "open",
                                      ended |-> FALSE, user |-> <<"9", "1", ":", "7", "@">>,
                                      code |-> 0, phoneNumber |-> NoPhone,
                                      creds |-> initAuthCreds, requested |-> FALSE,
                                      delivered |-> << >>]]
    /\ healthTimers = Sessions
    /\ timers = EmptyBag
    /\ statusCallbacks = Sessions
    /\ qrCallbacks = Sessions
    /\ pairingCodeCallbacks = {}
    /\ pairTimers = {}
    /\ inits = [c \in InitSlots |-> IdleInit]
    /\ now = 0
    /\ emitted = << >>
    /\ outcome = NoOutcome
    /\ campaign = NoCampaign
    /\ runs = << >>
    /\ passedAt = [s \in Sessions |-> << >>]
    /\ applied = NoCall
    /\ rateLimits = [s \in Sessions |->
                        [count |-> RATE_LIMIT_MAX, resetTime |-> RATE_LIMIT_WINDOW]]
    /\ rateCheck = NoCheck
    /\ logs = << >>
    /\ sends = << >>

\* The dispatcher next to the operations that create and remove connections.
NextSend ==
    \/ \E u \in Owners : CreateSession(u)
    \/ \E s \in Sessions, u \in Owners : Busy < 1 /\ InitializeClient(s, u)
    \/ \E c \in InitSlots : InitLoadAuth(c)
    \/ \E c \in InitSlots : InitConnect(c, NumSessions + MaxSendSockets)
    \/ \E s \in Sessions, u \in Users : DeleteSession(s, u)
    \/ \E s \in Sessions, u \in Owners : SendStart(s, u)
    \/ \E k \in 1..Len(sends) : SendDispatch(k)
    \/ \E k \in 1..Len(sends), ok \in BOOLEAN : SendResult(k, ok)
    \/ \E d \in ClockSteps : AdvanceClock(d)

SpecSend == (Init \/ InitBusy) /\ [][NextSend]_vars

\* The two pairing flows of a session: attempts with and without a phone
\* number, the artifacts and credential events of their transports, the settle
\* timer, and the closes without a status code whose reconnects carry an
\* attempt on.
NextPair ==
    \/ \E u \in Owners : CreateSession(u)
    \/ \E s \in Sessions, u \in Owners, phoneNumber \in Phones :
          Busy < 1 /\ InitializeClientWithPhone(s, u, phoneNumber)
    \/ \E c \in InitSlots : InitLoadAuth(c)
    \/ \E c \in InitSlots : InitConnect(c, MaxPairSockets)
    \/ \E t \in 1..Len(sockets) : Live(t) /\ TransportQr(t)
    \/ \E t \in 1..Len(sockets), registered \in BOOLEAN :
          Live(t) /\ CredsUpdate(t, registered)
    \/ \E t \in 1..Len(sockets) : Live(t) /\ KeysSet(t)
    \/ \E t \in pairTimers, ok \in BOOLEAN : PairingFire(t, ok)
    \/ \E t \in 1..Len(sockets), id \in Identities : TransportOpen(t, id)
    \/ \E t \in 1..Len(sockets) : ~sockets[t].ended /\ TransportClose(t, 0, 0)
    \/ \E tm \in BagToSet(timers) : Busy < 1 /\ ReconnectFire(tm)

SpecPair == Init /\ [][NextPair]_vars

\* getRetryDelay on its own, for retry counts up to MaxRetryCount
NextDelay ==
    \E retryCount \in 0..MaxRetryCount, r \in JitterSamples :
        ApplyGetRetryDelay(retryCount, r)

SpecDelay == Init /\ [][NextDelay]_vars

\* the recipient formatting on its own
NextRecipient ==
    \/ \E recipient \in Recipients : ApplyFormatRecipient(recipient)
    \/ ApplyFormatRecipientAgain

SpecRecipient == Init /\ [][NextRecipient]_vars

\* the payload selection of sendMessage on its own
NextPayload ==
    \/ \E mediaPath \in MediaPaths \cup {NoMedia}, exists \in BOOLEAN, message \in Messages :
          ApplyMediaPayload(mediaPath, exists, message)
    \/ \E mediaPath \in MediaPaths \cup {NoMedia}, exists \in BOOLEAN, message \in Messages,
          ok \in BOOLEAN :
          ApplyMediaSend(mediaPath, exists, message, ok)

SpecPayload == Init /\ [][NextPayload]_vars

\* the download and payload selection of sendMessageWithMediaUrl on its own
NextUrl ==
    \E ok \in BOOLEAN, header \in ContentTypes, urlPath \in UrlPaths, message \in Messages :
        ApplyUrlPayload(ok, header, urlPath, message)

SpecUrl == Init /\ [][NextUrl]_vars

\* createSession has been called NumPeers times and nothing else has happened
InitPeers ==
    /\ rows = [s \in Peers |-> [userId |-> 1, status |-> "pending",
                                sessionData |-> NullData, phoneNumber |-> NoPhone]]
    /\ nextId = NumPeers + 1
    /\ restoreQueue = << >>
    /\ clients = [s \in Peers |-> NoClient]
    /\ sockets = << >>
    /\ healthTimers = {}
    /\ timers = EmptyBag
    /\ statusCallbacks = {}
    /\ qrCallbacks = {}
    /\ pairingCodeCallbacks = {}
    /\ pairTimers = {}
    /\ inits = [c \in InitSlots |-> IdleInit]
    /\ now = 0
    /\ emitted = << >>
    /\ outcome = NoOutcome
    /\ campaign = NoCampaign
    /\ runs = << >>
    /\ passedAt = [s \in Peers |-> << >>]
    /\ applied = NoCall
    /\ rateLimits = [s \in Peers |-> NoEntry]
    /\ rateCheck = NoCheck
    /\ logs = << >>
    /\ sends = << >>

\* Several sessions side by side: each is initialized, opened, closed, has
\* its credentials updated, is sent through, rate-checked, health-checked and
\* deleted, one initializeClient call at a time; a send is what consumes from
\* the rate limit. MaxPeerEvents bounds the sends and the credentials updates
\* of a transport.
NextPeers ==
    \/ \E s \in Peers, u \in Owners : Busy < 1 /\ InitializeClient(s, u)
    \/ \E c \in InitSlots : InitLoadAuth(c)
    \/ \E c \in InitSlots : InitConnect(c, MaxPeerSockets)
    \/ \E t \in 1..Len(sockets), id \in Identities : TransportOpen(t, id)
    \/ \E t \in 1..Len(sockets), code \in PeerCodes :
          ~sockets[t].ended /\ TransportClose(t, code, 0)
    \/ \E tm \in BagToSet(timers) : Busy < 1 /\ ReconnectFire(tm)
    \/ \E t \in 1..Len(sockets) :
          Live(t) /\ sockets[t].creds.rev < MaxPeerEvents /\ CredsUpdate(t, TRUE)
    \/ \E t \in 1..Len(sockets) : Busy < 1 /\ HealthTick(t)
    \/ \E s \in Peers, u \in Owners : Owned(s, u) /\ DeleteSession(s, u)
    \/ \E s \in Peers, u \in Owners : Len(sends) < MaxPeerEvents /\ SendStart(s, u)
    \/ \E k \in 1..Len(sends) : SendDispatch(k)
    \/ \E k \in 1..Len(sends), ok \in BOOLEAN : SendResult(k, ok)

SpecPeers == InitPeers /\ [][NextPeers]_vars

\* session 1 of user 1 has been created, initialized and has opened with an
\* identity; nothing has been sent and there is no campaign
InitActive ==
    /\ rows = [s \in Sessions |-> [userId |-> 1, status |-> "connected",
                                   sessionData |-> NewCreds, phoneNumber |-> <<"9", "1">>]]
    /\ nextId = NumSessions + 1
    /\ restoreQueue = << >>
    /\ clients = [s \in Sessions |-> [socket |-> s, userId |-> 1, retryCount |-> 0,
                                      lastActivity |-> 0]]
    /\ sockets = [s \in Sessions |-> [sessionId |-> s, userId |-> 1, conn |-> "open",
                                      ended |-> FALSE, user |-> <<"9", "1", ":", "7", "@">>,
                                      code |-> 0, phoneNumber |-> NoPhone,
                                      creds |-> initAuthCreds, requested |-> FALSE,
                                      delivered |-> << >>]]
    /\ healthTimers = Sessions
    /\ timers = EmptyBag
    /\ statusCallbacks = Sessions
    /\ qrCallbacks = Sessions
    /\ pairingCodeCallbacks = {}
    /\ pairTimers = {}
    /\ inits = [c \in InitSlots |-> IdleInit]
    /\ now = 0
    /\ emitted = << >>
    /\ outcome = NoOutcome
    /\ campaign = NoCampaign
    /\ runs = << >>
    /\ passedAt = [s \in Sessions |-> << >>]
    /\ applied = NoCall
    /\ rateLimits = [s \in Sessions |-> NoEntry]
    /\ rateCheck = NoCheck
    /\ logs = << >>
    /\ sends = << >>

\* The callers of sendMessage next to a connected session: the session
\* controller, the public API and a campaign that any user creates, fills and
\* starts; the transport accepts or rejects what it is handed and may log out.
NextCampaign ==
    \/ \E u \in Users, s \in Sessions \cup {0} : CreateCampaign(u, s)
    \/ \E u \in Users : AddRecipient(u)
    \/ \E u \in Users : StartCampaign(u)
    \/ \E r \in 1..Len(runs) : RunSend(r)
    \/ \E r \in 1..Len(runs) : RunReact(r)
    \/ \E r \in 1..Len(runs) : RunRead(r)
    \/ \E r \in 1..Len(runs) : RunCount(r)
    \/ \E r \in 1..Len(runs) : RunFinish(r)
    \/ \E s \in Sessions, u \in Users : ControllerSend(s, u)
    \/ \E u \in Users : ApiSend(u)
    \/ \E k \in 1..Len(sends) : ApiReport(k)
    \/ \E k \in 1..Len(sends) : SendDispatch(k)
    \/ \E k \in 1..Len(sends), ok \in BOOLEAN : SendResult(k, ok)
    \/ \E t \in 1..Len(sockets) : ~sockets[t].ended /\ TransportClose(t, LoggedOutCode, 0)

SpecCampaign == InitActive /\ [][NextCampaign]_vars

\* The supervisor with transports that go on emitting after it has ended them
\* or after they have reported close: a close from an ended transport, and
\* credentials and key-store updates from any transport. One initializeClient
\* call runs at a time.
NextLate ==
    \/ \E u \in Owners : CreateSession(u)
    \/ \E s \in Sessions, u \in Owners : Busy < 1 /\ InitializeClient(s, u)
    \/ \E c \in InitSlots : InitLoadAuth(c)
    \/ \E c \in InitSlots : InitConnect(c, MaxLateSockets)
    \/ \E t \in 1..Len(sockets), id \in Identities : TransportOpen(t, id)
    \/ \E t \in 1..Len(sockets), code \in StatusCodes : TransportClose(t, code, 0)
    \/ \E tm \in BagToSet(timers) : Busy < 1 /\ ReconnectFire(tm)
    \/ \E t \in 1..Len(sockets), registered \in BOOLEAN :
          sockets[t].creds.rev < MaxLateUpdates /\ CredsUpdate(t, registered)
    \/ \E t \in 1..Len(sockets) : sockets[t].creds.rev < MaxLateUpdates /\ KeysSet(t)
    \/ Busy < 1 /\ AutoRestore

SpecLate == Init /\ [][NextLate]_vars

\* ------------------------------------------------ properties

RowExists(s) == rows[s].status # "none"

\* the session's row was created and has been deleted (keys are never reused)
Deleted(s) == s < nextId /\ rows[s].status = "none"

\* socket t reports close in this step; sockets'[t].code is the status code handled
ClosedNow(t) == sockets[t].conn # "close" /\ sockets'[t].conn = "close"

\* socket t reports open in this step
OpenedNow(t) == sockets[t].conn = "connecting" /\ sockets'[t].conn = "open"

\* a reconnect timer leaves the pending set in this step, i.e. it fires
Fires(tm) == CopiesIn(tm, timers') < CopiesIn(tm, timers)

\* exactly one timer is added in this step, for session s with retry count n
OneTimerAdded(s, n) ==
    /\ BagCardinality(timers') = BagCardinality(timers) + 1
    /\ \E tm \in BagToSet(timers') :
          /\ CopiesIn(tm, timers') = CopiesIn(tm, timers) + 1
          /\ tm.sessionId = s
          /\ tm.retryCount = n

\* the status listener of s, when there is one, was handed exactly this notification
Told(s, status, detail) ==
    s \in statusCallbacks =>
        /\ Len(emitted') = 1
        /\ emitted'[1].sessionId = s
        /\ emitted'[1].status = status
        /\ emitted'[1].detail = detail

\* C1: whenever initializeClient stores the Active Connection of a call, every
\* transport an earlier call made for the same session has been ended (or has
\* reported close), so no un-ended transport of an earlier call remains.
C1_FirstEndedBeforeSecondStored ==
    [][\A s \in Sessions :
          (Len(sockets') = Len(sockets) + 1 /\ sockets'[Len(sockets')].sessionId = s)
          => \A t \in SocketsOf(s) : sockets'[t].ended \/ sockets'[t].conn = "close"]_vars

\* C2: in every reachable state each session has at most one transport that the
\* supervisor made and that is neither ended nor reported closed.
C2_AtMostOneActive ==
    \A s \in Sessions : Cardinality({ t \in SocketsOf(s) : Live(t) }) <= 1

\* C3: once a session has been deleted no reconnect timer of it fires an
\* initializeClient, and a health-check interval of it that is still live finds
\* no registered connection to re-initialize.
C3_NoTimerInitAfterDelete ==
    [][\A s \in Sessions : Deleted(s) =>
          /\ \A tm \in BagToSet(timers) : tm.sessionId = s => ~Fires(tm)
          /\ \A t \in healthTimers : sockets[t].sessionId = s => clients[s].socket = 0]_vars

\* C4: when a transport reports close with status 401 (logged out), the row (if
\* the session still has one) ends disconnected with a null auth blob, the
\* Active Connection is removed, the status listener (if one is registered) is
\* told 'disconnected / logged_out', and no reconnect is scheduled.
C4_LoggedOutWipes ==
    [][\A t \in 1..Len(sockets) :
          (ClosedNow(t) /\ sockets'[t].code = 401) =>
            LET s == sockets[t].sessionId IN
            /\ RowExists(s) => /\ rows'[s].status = "disconnected"
                               /\ rows'[s].sessionData = NullData
            /\ clients'[s] = NoClient
            /\ Told(s, "disconnected", "logged_out")
            /\ timers' = timers]_vars

C4_Witness ==
    \E t \in 1..Len(sockets) :
        /\ sockets[t].conn = "close" /\ sockets[t].code = 401
        /\ rows[sockets[t].sessionId].status = "disconnected"
        /\ rows[sockets[t].sessionId].sessionData = NullData
        /\ emitted = << Notification(sockets[t].sessionId, "disconnected", "logged_out", NoPhone, 0) >>

\* C5: a close with a retryable status handled at retry count n < 5 schedules
\* exactly one reconnect, carrying n + 1, and persists pending; when the timer
\* fires the listener is told 'reconnecting' and initializeClient starts with
\* that retry count; the close handled at retry count 5 schedules nothing,
\* persists failed and tells the listener 'max retries exceeded'; no retry
\* count ever exceeds 5, so a chain ends after at most 5 reconnects.
C5_RetryChain ==
    [][/\ \A t \in 1..Len(sockets) :
            (ClosedNow(t) /\ sockets'[t].code \in {408, 429, 500, 502, 503, 515}) =>
              LET s == sockets[t].sessionId
                  n == clients[s].retryCount
              IN  IF n < 5
                  THEN /\ OneTimerAdded(s, n + 1)
                       /\ RowExists(s) => rows'[s].status = "pending"
                  ELSE /\ timers' = timers
                       /\ RowExists(s) => rows'[s].status = "failed"
                       /\ Told(s, "error", "maxRetriesExceeded")
       /\ \A tm \in BagToSet(timers) : Fires(tm) =>
              /\ Told(tm.sessionId, "reconnecting", "")
              /\ \E c \in InitSlots :
                    /\ inits[c].pc = "idle"
                    /\ inits'[c].pc = "auth"
                    /\ inits'[c].sessionId = tm.sessionId
                    /\ inits'[c].retryCount = tm.retryCount
       /\ \A tm \in BagToSet(timers') : tm.retryCount <= 5
       /\ \A s \in Sessions : clients'[s].retryCount <= 5]_vars

C5_Witness ==
    \E t \in 1..Len(sockets) :
        /\ t >= 6
        /\ sockets[t].conn = "close"
        /\ rows[sockets[t].sessionId].status = "failed"
        /\ timers = EmptyBag
        /\ emitted = << Notification(sockets[t].sessionId, "error", "maxRetriesExceeded",
                                     NoPhone, sockets[t].code) >>

\* C6: when a transport reports close with a 4xx status other than 401, 408 and
\* 429, the row (if any) is persisted failed with its auth blob untouched, the
\* Active Connection is removed, the status listener (if registered) is told
\* 'error / fatal', and no reconnect is scheduled; also on the first attempt.
C6_FatalNoRetry ==
    [][\A t \in 1..Len(sockets) :
          (ClosedNow(t) /\ sockets'[t].code \in (400..499) \ {401, 408, 429}) =>
            LET s == sockets[t].sessionId IN
            /\ RowExists(s) => /\ rows'[s].status = "failed"
                               /\ rows'[s].sessionData = rows[s].sessionData
            /\ clients'[s] = NoClient
            /\ Told(s, "error", "fatal")
            /\ timers' = timers]_vars

C6_Witness ==
    /\ Len(sockets) = 1
    /\ sockets[1].conn = "close" /\ sockets[1].code = 403
    /\ rows[sockets[1].sessionId].status = "failed"
    /\ rows[sockets[1].sessionId].sessionData # NullData
    /\ timers = EmptyBag
    /\ emitted = << Notification(sockets[1].sessionId, "error", "fatal", NoPhone, 403) >>

\* the part of an identity before its first ':' (all of it when it has none)
PartBeforeColon(id) ==
    IF \E i \in 1..Len(id) : id[i] = ":"
    THEN SubSeq(id, 1, (CHOOSE i \in 1..Len(id) :
                           id[i] = ":" /\ \A j \in 1..(i - 1) : id[j] # ":") - 1)
    ELSE id

C8_FirstRetry ==
    [][/\ \A t \in 1..Len(sockets) :
            (ClosedNow(t) /\ sockets'[t].code \in {408, 500, 502, 503, 515}
                          /\ clients[sockets[t].sessionId].retryCount = 0) =>
              /\ OneTimerAdded(sockets[t].sessionId, 1)
              /\ \A tm \in BagToSet(timers') :
                    CopiesIn(tm, timers') > CopiesIn(tm, timers) =>
                        /\ 10 * tm.delay >= 8 * 2000
                        /\ 10 * tm.delay <= 12 * 2000
       /\ \A tm \in BagToSet(timers) : Fires(tm) =>
              \E c \in InitSlots : /\ inits[c].pc = "idle"
                                   /\ inits'[c].pc = "auth"
                                   /\ inits'[c].sessionId = tm.sessionId
                                   /\ inits'[c].retryCount = tm.retryCount
       /\ \A c \in InitSlots :
              (inits[c].pc = "version" /\ inits'[c].pc = "idle"
                                       /\ Len(sockets') = Len(sockets) + 1) =>
                  /\ clients'[inits[c].sessionId].socket = Len(sockets')
                  /\ clients'[inits[c].sessionId].retryCount = inits[c].retryCount]_vars

C8_Witness ==
    \E s \in Sessions :
        /\ clients[s].socket = 2
        /\ clients[s].retryCount = 1
        /\ sockets[1].conn = "close" /\ sockets[1].code = 500
        /\ sockets[2].conn = "connecting"
        /\ timers = EmptyBag

\* C9: with max 30 and window 60000 ms, a checkRateLimit call that finds fewer
\* than 30 calls counted in a running window is allowed and counts itself; one
\* that finds 30 is denied with wait time resetTime - now and changes nothing;
\* one made when there is no entry or the window has elapsed (now > resetTime)
\* is allowed and replaces the entry by {count: 1, resetTime: now + 60000}.
C9_RateWindow ==
    [][\A s \in Sessions :
          (now' = now /\ rateCheck'.sessionId = s) =>
            LET e == rateLimits[s] IN
            IF e.count = 0 \/ now > e.resetTime
            THEN /\ rateCheck'.allowed
                 /\ rateLimits'[s] = [count |-> 1, resetTime |-> now + 60000]
            ELSE IF e.count < 30
            THEN /\ rateCheck'.allowed
                 /\ rateLimits'[s] = [count |-> e.count + 1, resetTime |-> e.resetTime]
            ELSE /\ ~rateCheck'.allowed
                 /\ rateCheck'.waitTime = e.resetTime - now
                 /\ rateLimits'[s] = e]_vars

C9_Witness ==
    \E s \in Sessions :
        /\ rateCheck = [sessionId |-> s, allowed |-> FALSE, waitTime |-> 30500]
        /\ rateLimits[s].count = 30
        /\ rateLimits[s].resetTime = now + 30500

Rejected(k) == sends[k].error \in {"Session not active", "Rate limit exceeded"}

C11_PendingBeforeSend ==
    [][\A k \in 1..Len(sends') :
          LET id == sends'[k].logId IN
          /\ sends'[k].pc \in {"saved", "sending"} =>
                /\ id \in 1..Len(logs')
                /\ logs'[id].status = "pending"
          /\ (k <= Len(sends) /\ sends[k].pc # "sending" /\ sends'[k].pc = "sending") =>
                /\ id \in 1..Len(logs)
                /\ logs[id].status = "pending"
          /\ (k <= Len(sends) /\ id \in 1..Len(logs) /\ logs'[id].status # logs[id].status) =>
                /\ sends[k].pc = "sending" /\ sends'[k].pc = "done"
                /\ logs[id].status = "pending"
                /\ logs'[id].status \in {"sent", "failed"}]_vars

C11_Witness ==
    \E k \in 1..Len(sends) :
        /\ sends[k].pc = "sending"
        /\ logs[sends[k].logId].status = "pending"
        /\ \E j \in 1..Len(sends) : sends[j].pc = "done" /\ sends[j].logId # 0
                                      /\ logs[sends[j].logId].status = "sent"

\* the rate limiter denies a call for s made now: the session has a connection
\* and its window is running with the maximum already counted
Denies(s) ==
    /\ clients[s].socket # 0
    /\ rateLimits[s].count >= 30
    /\ now <= rateLimits[s].resetTime

\* C12: a send call the rate limiter denies ends with the rate-limit error
\* naming ceil((resetTime - now) / 1000) seconds, is never handed to the
\* transport, writes no log row and leaves the rate-limit entry as it was.
C12_DeniedSendTouchesNothing ==
    [][/\ (Len(sends') = Len(sends) + 1 /\ Denies(sends'[Len(sends')].sessionId)) =>
            LET call == sends'[Len(sends')]
                wait == rateLimits[call.sessionId].resetTime - now
            IN  /\ call.error = "Rate limit exceeded"
                /\ 1000 * call.seconds >= wait
                /\ 1000 * (call.seconds - 1) < wait
                /\ call.pc = "done"
                /\ call.logId = 0
                /\ logs' = logs
                /\ rateLimits' = rateLimits
       /\ \A k \in 1..Len(sends) :
              sends[k].error = "Rate limit exceeded" => sends'[k] = sends[k]]_vars

C12_Witness ==
    \E k \in 1..Len(sends) :
        /\ sends[k].error = "Rate limit exceeded"
        /\ sends[k].seconds = 31
        /\ now = 29500
        /\ logs = << >>
        /\ rateLimits[sends[k].sessionId] = [count |-> 30, resetTime |-> 60000]

\* C13 as claimed: a send call for a session without an Active Connection fails
\* with 'Session not active' and has a message-log row of its own with status
\* failed.
C13_NotActiveIsLogged ==
    \A k \in 1..Len(sends) :
        sends[k].error = "Session not active" =>
            /\ sends[k].logId \in 1..Len(logs)
            /\ logs[sends[k].logId].status = "failed"

\* C14: deleteSession(s, u) returns false and leaves transports, registry,
\* rate-limit entries, health checks and rows as they were when no row with id
\* s owned by u exists; otherwise it ends the transport of the session's Active
\* Connection (if any), removes the registry entry and the rate-limit entry,
\* deletes the row and returns true.
C14_DeleteSession ==
    [][outcome'.op = "deleteSession" =>
          LET s == outcome'.sessionId
              u == outcome'.userId
          IN  IF rows[s].status # "none" /\ rows[s].userId = u
              THEN /\ outcome'.value = "true"
                   /\ clients[s].socket # 0 => sockets'[clients[s].socket].ended
                   /\ clients'[s] = NoClient
                   /\ rateLimits'[s] = NoEntry
                   /\ rows'[s].status = "none"
              ELSE /\ outcome'.value = "false"
                   /\ sockets' = sockets
                   /\ clients' = clients
                   /\ rateLimits' = rateLimits
                   /\ healthTimers' = healthTimers
                   /\ rows' = rows]_vars

C14_Witness ==
    \E s \in Sessions :
        /\ outcome = Outcome("deleteSession", s, 1, "true")
        /\ \E t \in SocketsOf(s) : sockets[t].ended
        /\ \E k \in 1..Len(sends) : sends[k].sessionId = s /\ sends[k].logId # 0
        /\ clients[s] = NoClient
        /\ rateLimits[s] = NoEntry
        /\ rows[s] = NoRow

C16_InitFailure ==
    [][\A c \in InitSlots :
          LET s == inits[c].sessionId IN
          /\ (inits[c].pc # "idle" /\ inits'[c].pc = "idle" /\ Len(sockets') = Len(sockets)) =>
                /\ outcome' = Outcome("initializeClient", s, inits[c].userId, "throws")
                /\ RowExists(s) => rows'[s].status = "failed"
                /\ Told(s, "error", "init")
                /\ clients'[s] = NoClient
          /\ (inits[c].pc = "auth" /\ inits'[c] # inits[c] /\ ~RowExists(s)) =>
                outcome'.value = "throws"]_vars

\* C17: in every reachable state the transport of every Active Connection in
\* the registry belongs to that session, has not reported close and has not
\* been ended by the supervisor.
C17_RegisteredIsLive ==
    \A s \in Sessions :
        clients[s].socket # 0 =>
            /\ clients[s].socket \in SocketsOf(s)
            /\ ~sockets[clients[s].socket].ended
            /\ sockets[clients[s].socket].conn # "close"

C17_Witness ==
    \E s \in Sessions :
        /\ clients[s].socket = 2
        /\ sockets[2].conn = "open"
        /\ sockets[1].ended \/ sockets[1].conn = "close"

\* C18: when a write to the session table rejects while the supervisor handles
\* a close event or deletes a session, the session's Active Connection is
\* removed from the registry all the same and its health check is stopped; a
\* delete has also ended its transport.
C18_WriteFailureReleases ==
    [][(outcome'.value = "throws" /\ outcome'.op \in {"connection.update", "deleteSession"}) =>
          LET s == outcome'.sessionId IN
          /\ clients'[s] = NoClient
          /\ clients[s].socket # 0 =>
                /\ clients[s].socket \notin healthTimers'
                /\ outcome'.op = "deleteSession" => sockets'[clients[s].socket].ended]_vars

C18_Witness ==
    \E t \in 1..Len(sockets) :
        LET s == sockets[t].sessionId IN
        /\ outcome = Outcome("connection.update", s, sockets[t].userId, "throws")
        /\ sockets[t].conn = "close" /\ sockets[t].code = 401
        /\ rows[s].status = "connected" /\ rows[s].sessionData # NullData
        /\ clients[s] = NoClient
        /\ healthTimers = {}

\* C19 as claimed: when onModuleDestroy returns, end() has been called on the
\* transport of every connection that was registered, no health check is left
\* running, and the registry, the rate limits and the callback maps are empty.
C19_ShutdownClearsAll ==
    [][outcome'.op = "onModuleDestroy" =>
          /\ outcome'.value = "returns"
          /\ \A s \in Sessions : clients[s].socket # 0 => sockets'[clients[s].socket].ended
          /\ healthTimers' = {}
          /\ \A s \in Sessions : clients'[s] = NoClient /\ rateLimits'[s] = NoEntry
          /\ statusCallbacks' = {}]_vars

\* onModuleInit passes these entries of its list in this step
Passed == SubSeq(restoreQueue, 1, Len(restoreQueue) - Len(restoreQueue'))

\* an initializeClient for session s starts in this step
InitStarts(s) ==
    \E c \in InitSlots : inits[c].pc = "idle" /\ inits'[c].pc = "auth" /\ inits'[c].sessionId = s

\* C20 as claimed: when onModuleInit passes a session that was connected at
\* start, it starts an initializeClient for it if the session has auth state,
\* and otherwise starts none and sets the row to disconnected; rows with another
\* status are left alone.
C20_RestoreOrDisconnect ==
    [][restoreQueue' # restoreQueue =>
          /\ \A i \in 1..Len(Passed) :
                IF Passed[i].sessionData # NullData
                THEN InitStarts(Passed[i].id)
                ELSE /\ ~InitStarts(Passed[i].id)
                     /\ RowExists(Passed[i].id) => rows'[Passed[i].id].status = "disconnected"
          /\ \A s \in Sessions : rows[s].status # "connected" => rows'[s] = rows[s]]_vars

\* the artifacts handed to listeners on behalf of transport t so far
Artifacts(t) == { sockets[t].delivered[i] : i \in 1..Len(sockets[t].delivered) }

\* a listener is handed an artifact of transport t in this step
Handed(t, artifact) ==
    /\ Len(sockets'[t].delivered) = Len(sockets[t].delivered) + 1
    /\ sockets'[t].delivered[Len(sockets'[t].delivered)] = artifact

\* a pairing code is requested from transport t in this step
CodeRequested(t) == sockets'[t].requested /\ ~sockets[t].requested

\* C21: within one connection attempt the two pairing flows exclude each other:
\* a QR of the attempt's transport is handed to the QR listener only if the
\* attempt was started without a phone number, a pairing code is requested
\* only if it was started with one, and no attempt has both a QR and a pairing
\* code handed to listeners.
C21_PairingFlowsExclusive ==
    [][\A t \in 1..Len(sockets) :
          /\ Handed(t, "qr") => sockets[t].phoneNumber = NoPhone
          /\ CodeRequested(t) => sockets[t].phoneNumber # NoPhone
          /\ ~({"qr", "code"} \subseteq { sockets'[t].delivered[i] :
                                            i \in 1..Len(sockets'[t].delivered) })]_vars

\* one attempt of the session has handed over a QR and a later one, started
\* with a phone number, a pairing code
C21_Witness ==
    \E t, t2 \in 1..Len(sockets) :
        /\ sockets[t].sessionId = sockets[t2].sessionId
        /\ "qr" \in Artifacts(t)
        /\ "code" \in Artifacts(t2)
        /\ sockets[t2].phoneNumber # NoPhone

\* C22: a pairing code is requested only for an attempt with a phone number
\* whose credentials were unregistered when initializeClient ran (the settle
\* timer was set) and are still unregistered when the timer expires; a timer
\* that expires on registered credentials requests nothing and notifies nobody.
C22_CodeOnlyWhileUnregistered ==
    [][/\ \A t \in 1..Len(sockets) :
            /\ CodeRequested(t) =>
                  /\ sockets[t].phoneNumber # NoPhone
                  /\ t \in pairTimers
                  /\ ~sockets[t].creds.registered
            /\ (t \in pairTimers \ pairTimers' /\ sockets[t].creds.registered) =>
                  /\ sockets'[t].requested = sockets[t].requested
                  /\ emitted' = << >>
       /\ \A t \in pairTimers' \ pairTimers :
            /\ sockets'[t].phoneNumber # NoPhone
            /\ ~sockets'[t].creds.registered]_vars

\* the settle timer of an attempt has expired after its credentials became
\* registered, and the request was skipped
C22_Witness ==
    /\ outcome.op = "requestCode"
    /\ outcome.value = "skipped"
    /\ \E t \in 1..Len(sockets) :
          /\ sockets[t].phoneNumber # NoPhone
          /\ sockets[t].creds.registered
          /\ ~sockets[t].requested
          /\ t \notin pairTimers

\* C23: every creds.update event and every key-store set of a session's
\* transport writes the credentials as they then are to the session's row:
\* when its handler has completed the persisted blob is the serialisation of
\* the transport's latest in-memory credentials.
C23_EveryUpdatePersisted ==
    [][\A t \in 1..Len(sockets) :
          (sockets'[t].creds # sockets[t].creds /\ RowExists(sockets[t].sessionId)) =>
              rows'[sockets[t].sessionId].sessionData = Stringify(sockets'[t].creds)]_vars

\* a transport has had two updates of still unregistered credentials, and the
\* row holds the second
C23_Witness ==
    \E t \in 1..Len(sockets) :
        /\ sockets[t].creds = [registered |-> FALSE, rev |-> 2]
        /\ rows[sockets[t].sessionId].sessionData = Stringify(sockets[t].creds)
        /\ outcome = NoOutcome
        /\ sockets[t].conn = "connecting"

DigitsIn(str) == SelectSeq(str, LAMBDA ch : ch \in Digits)

\* how often ch occurs in str
Occurrences(str, ch) == Cardinality({ i \in 1..Len(str) : str[i] = ch })

\* C25: the address sendMessage uses is the digits of the recipient, with 91
\* put in front exactly when there are ten of them, followed by the address
\* suffix once; so the three spellings of 9876543210 give one address, and an
\* address that is formatted again comes back unchanged.
C25_RecipientCanonical ==
    /\ applied.fn = "formatRecipient" =>
          /\ applied.result =
                (IF Len(DigitsIn(applied.args[1])) = 10 THEN <<"9", "1">> ELSE << >>)
                \o DigitsIn(applied.args[1]) \o AddressSuffix
          /\ Occurrences(applied.result, "@") = 1
          /\ FormatRecipient(applied.result) = applied.result
    /\ \A a, b \in NamedRecipients : FormatRecipient(a) = FormatRecipient(b)

\* an address that was already formatted has been formatted again
C25_Witness ==
    /\ applied.fn = "formatRecipient"
    /\ applied.args[1] = FormatRecipient(<<"9", "8", "7", "6", "5", "4", "3", "2", "1", "0">>)
    /\ applied.result = applied.args[1]
    /\ Len(applied.result) = 12 + Len(AddressSuffix)

\* C26 as claimed: the limiter is a sliding window, so of the calls of a
\* session that checkRateLimit has let pass, at most RATE_LIMIT_MAX lie in any
\* interval of RATE_LIMIT_WINDOW ms, wherever the interval starts.
C26_SlidingWindow ==
    \A s \in Sessions :
        \A i \in 1..Len(passedAt[s]) :
            Cardinality({ j \in i..Len(passedAt[s]) :
                            passedAt[s][j] - passedAt[s][i] < RATE_LIMIT_WINDOW })
                <= RATE_LIMIT_MAX

\* C27 as claimed: a health-check tick that finds the registered transport
\* without an identity starts exactly one initializeClient of the session, and
\* only when the row exists with auth state; and a connection that has been
\* torn down (its transport has reported close or has been ended) holds no
\* health-check timer any more, so none can start another initializeClient.
C27_HealthCheck ==
    [][/\ (outcome'.op = "healthCheck" /\ outcome'.value = "reinitialize") =>
             /\ RowExists(outcome'.sessionId)
             /\ rows[outcome'.sessionId].sessionData # NullData
             /\ Cardinality({ c \in InitSlots : inits'[c] # inits[c] }) = 1
             /\ \A c \in InitSlots :
                   inits'[c] # inits[c] =>
                       /\ inits[c].pc = "idle"
                       /\ inits'[c].pc = "auth"
                       /\ inits'[c].sessionId = outcome'.sessionId
       /\ (outcome'.op = "healthCheck" /\ outcome'.value # "reinitialize") =>
             inits' = inits
       /\ \A t \in healthTimers' :
             ~sockets'[t].ended /\ sockets'[t].conn # "close"]_vars

\* nothing is in progress or pending for session s: no initializeClient call, no
\* restore, no reconnect or pairing timer, no send, and every transport of the
\* session that the supervisor has not ended has reported open, with its
\* identity, or close
Quiescent(s) ==
    /\ \A c \in InitSlots : inits[c].pc = "idle"
    /\ restoreQueue = << >>
    /\ \A tm \in BagToSet(timers) : tm.sessionId # s
    /\ \A t \in pairTimers : sockets[t].sessionId # s
    /\ \A k \in 1..Len(sends) : sends[k].pc = "done"
    /\ \A t \in SocketsOf(s) :
          \/ sockets[t].ended
          \/ sockets[t].conn = "close"
          \/ sockets[t].conn = "open" /\ sockets[t].user # << >>

\* C28 as claimed: whenever nothing is in progress or pending for a session,
\* its persisted status is connected exactly if the registry holds a
\* connection for it whose transport reports an identity.
C28_QuiescentStatusAgrees ==
    \A s \in Sessions :
        (RowExists(s) /\ Quiescent(s)) =>
            (rows[s].status = "connected" <=> isSessionActive(s))

\* C29: the payload sendMessage hands to the transport is determined by the
\* MIME type of the media: an image or a video goes inline with the body as
\* caption, a PDF as a document named after the last segment of the path with
\* the body as caption, any other type as such a document without caption;
\* without media the body goes as plain text.
C29_PayloadByMimeType ==
    applied.fn = "payload" =>
        LET mediaPath == applied.args[1]
            message == applied.args[3]
            mimeType == getMimeType(mediaPath)
            sent == applied.result
        IN  IF mediaPath = NoMedia
            THEN sent.kind = "text" /\ sent.text = << message >> /\ sent.caption = << >>
            ELSE applied.args[2] =>
                 /\ mimeType[1] = "image" => sent.kind = "image" /\ sent.caption = << message >>
                 /\ mimeType[1] = "video" => sent.kind = "video" /\ sent.caption = << message >>
                 /\ mimeType = <<"application", "pdf">> =>
                       /\ sent.kind = "document"
                       /\ sent.fileName = << mediaPath.name, mediaPath.ext >>
                       /\ sent.caption = << message >>
                 /\ (mimeType[1] \notin {"image", "video"} /\ mimeType # <<"application", "pdf">>) =>
                       /\ sent.kind = "document"
                       /\ sent.mimetype = mimeType
                       /\ sent.fileName = << mediaPath.name, mediaPath.ext >>
                       /\ sent.caption = << >>

\* a Word file has gone out as a named document without caption
C29_Witness ==
    /\ applied.fn = "payload"
    /\ applied.args[1] = [dir |-> "/uploads/", name |-> "a", ext |-> ".docx"]
    /\ applied.args[2]
    /\ applied.args[3] = "hello"
    /\ applied.result.kind = "document"
    /\ applied.result.fileName = <<"a", ".docx">>
    /\ applied.result.caption = << >>

\* C30 as claimed: for a remote URL the transport is called only after a 2xx
\* response, any other response leaving the row failed; and the kind sent
\* follows the Content-Type header, the extension of the URL deciding only
\* when the header names none of image, video or PDF, so that a video/* or
\* application/pdf response goes out as video or PDF whatever the extension.
C30_ContentTypeFirst ==
    applied.fn = "urlPayload" =>
        LET ok == applied.args[1]
            header == applied.args[2]
            ext == LowerCase(applied.args[3].ext)
            done == applied.result
        IN  /\ ~ok => done.status = "failed" /\ done.payloads = << >>
            /\ ok =>
                 /\ Len(done.payloads) = 1
                 /\ (header # << >> /\ header[1] = "image") => done.payloads[1].kind = "image"
                 /\ (header # << >> /\ header[1] = "video") => done.payloads[1].kind = "video"
                 /\ header = <<"application", "pdf">> =>
                       /\ done.payloads[1].kind = "document"
                       /\ done.payloads[1].mimetype = <<"application", "pdf">>
                 /\ (header \in { << >>, <<"application", "octet-stream">> } /\ ext = ".mp4") =>
                       done.payloads[1].kind = "video"


\* C31 as claimed: a sendMessage call whose media path names a file that is
\* not on disk hands no payload to the transport and never leaves its log row
\* with status sent.
C31_MissingFileNotSent ==
    (applied.fn = "mediaSend" /\ applied.args[1] # NoMedia /\ ~applied.args[2]) =>
        /\ applied.result.payloads = << >>
        /\ applied.result.status # "sent"


\* what the service holds for session b: registry entry (with its retry count),
\* health-check timers, rate-limit entry, registered callbacks, persisted row
PeerView(b) ==
    << clients[b], { t \in healthTimers : sockets[t].sessionId = b }, rateLimits[b],
       b \in statusCallbacks, b \in qrCallbacks, b \in pairingCodeCallbacks, rows[b] >>

\* this step is an operation on session a or an event of one of its transports
About(a) ==
    \/ \E u \in Owners : InitializeClient(a, u)
    \/ \E c \in InitSlots :
          /\ inits[c].sessionId = a
          /\ InitLoadAuth(c) \/ InitConnect(c, MaxPeerSockets)
    \/ \E t \in SocketsOf(a) :
          \/ \E id \in Identities : TransportOpen(t, id)
          \/ \E code \in PeerCodes : TransportClose(t, code, 0)
          \/ CredsUpdate(t, TRUE)
          \/ HealthTick(t)
    \/ \E tm \in BagToSet(timers) : tm.sessionId = a /\ ReconnectFire(tm)
    \/ \E u \in Owners : DeleteSession(a, u) \/ SendStart(a, u)
    \/ \E k \in 1..Len(sends) :
          /\ sends[k].sessionId = a
          /\ SendDispatch(k) \/ \E ok \in BOOLEAN : SendResult(k, ok)

\* C32: an operation on session a, or an event of one of a's transports
\* (initialize, open, close, credentials update, delete, send, rate-limit
\* consume, health-check tick), leaves what the service holds for every other
\* session b unchanged: registry entry and retry count, health-check timers,
\* rate-limit entry, registered callbacks and persisted row.
C32_SessionsIndependent ==
    [][\A a \in Peers : About(a) =>
          \A b \in Peers \ {a} : PeerView(b)' = PeerView(b)]_vars

\* session 1's transport has closed while session 2 is connected, health-checked,
\* has a rate-limit entry and a listener
C32_Witness ==
    /\ clients[2].socket # 0
    /\ clients[2].socket \in healthTimers
    /\ rows[2].status = "connected"
    /\ rateLimits[2].count > 0
    /\ 2 \in statusCallbacks
    /\ \E t \in SocketsOf(1) : sockets[t].conn = "close" /\ sockets[t].user # << >>
    /\ rows[1].status = "disconnected"


\* C33 as claimed: the callers of sendMessage act on the status of the log it
\* returns: a run marks a recipient SENT (and then counts it in sentCount)
\* only when the log returned for that recipient has status sent, and the
\* public API answers success only for a log with status sent.
C33_CallersInspectStatus ==
    [][/\ \A r \in 1..Len(runs) :
             (runs[r].pc = "sending" /\ runs'[r].pc = "read" /\ runs'[r].status = "sent")
                => /\ ~Thrown(runs[r].send)
                   /\ logs[sends[runs[r].send].logId].status = "sent"
       /\ outcome'.op = "sendWhatsApp" =>
             outcome'.value \notin {"success: true, status: failed",
                                    "success: true, status: pending"}]_vars


\* C34 as claimed: a close reported by a transport that is not the one
\* registered for its session, while a newer connection is registered, leaves
\* that connection alone: the registry entry stays, its health check is not
\* stopped, the persisted status does not change and no reconnect is scheduled.
C34_StaleCloseHarmless ==
    [][\A t \in 1..Len(sockets) :
          (ClosedNow(t) /\ clients[sockets[t].sessionId].socket \notin {0, t})
             => /\ clients'[sockets[t].sessionId] = clients[sockets[t].sessionId]
                /\ healthTimers' = healthTimers
                /\ rows'[sockets[t].sessionId].status = rows[sockets[t].sessionId].status
                /\ timers' = timers]_vars


\* C35 as claimed: a send is let past its precondition only when
\* isSessionActive holds for the session at that moment; a call made while the
\* connection is registered but its transport reports no identity is refused
\* as not active, spends no rate-limit token and creates no log row.
C35_SendOnlyWhenActive ==
    [][(Len(sends') = Len(sends) + 1 /\ ~isSessionActive(sends'[Len(sends')].sessionId))
          => /\ sends'[Len(sends')].error = "Session not active"
             /\ rateLimits' = rateLimits
             /\ logs' = logs]_vars


\* C36 as claimed: every sendMessage call that got past its precondition was
\* made on behalf of the user who owns the session it uses, and that user is
\* the one recorded in its log row; and every campaign run sends on behalf of
\* the owner of the session it sends through.
C36_TenantIsolation ==
    /\ \A k \in 1..Len(sends) :
          sends[k].logId # 0 =>
             /\ sends[k].userId = rows[sends[k].sessionId].userId
             /\ logs[sends[k].logId].userId = rows[sends[k].sessionId].userId
    /\ \A r \in 1..Len(runs) : runs[r].userId = rows[runs[r].sessionId].userId


\* C37 as claimed: a session row whose persisted status is connected holds an
\* auth-state blob, whatever the interleaving of open, logged-out close,
\* credentials updates and re-initializations.
C37_ConnectedHasCredentials ==
    \A s \in Sessions : rows[s].status = "connected" => rows[s].sessionData # NullData


\* the runs that have called sendMessage for recipient i of the campaign
Attempts(i) ==
    { r \in 1..Len(runs) : /\ i <= Len(runs[r].recipients)
                           /\ runs[r].pos >= i
                           /\ runs[r].recipients[i] = "pending" }

\* C38 as claimed: each recipient of the campaign gets at most one sendMessage
\* attempt, also when startCampaign is called again while a run is under way,
\* and sentCount + failedCount never exceeds totalRecipients.
C38_OneAttemptPerRecipient ==
    /\ \A i \in 1..Len(campaign.recipients) : Cardinality(Attempts(i)) <= 1
    /\ campaign.sentCount + campaign.failedCount <= campaign.totalRecipients


\* C39 as claimed: once a logged-out close has cleared the credentials of a
\* session, a credentials update or key-store write that arrives from the
\* logged-out transport does not write credentials back: the auth-state blob
\* stays null.
C39_NoWriteBackAfterLogout ==
    [][\A t \in 1..Len(sockets) :
          (/\ sockets[t].conn = "close"
           /\ sockets[t].code = LoggedOutCode
           /\ rows[sockets[t].sessionId].sessionData = NullData
           /\ sockets'[t].creds.rev > sockets[t].creds.rev)
             => rows'[sockets[t].sessionId].sessionData = NullData]_vars

====
